---- MODULE Spec2Model ----
(***************************************************************************)
(* A model of the tosho_mango core: the KM point wallet and purchase       *)
(* client, the KM cookie session and its config store, the MU coin         *)
(* calculation and the KM image descrambler.                               *)
(*                                                                         *)
(* The program is single threaded.  Every library call is one action; the  *)
(* record `last` holds the call that has just returned (its arguments, the *)
(* scripted backend response, what was sent and what came back), and the   *)
(* caller moves on with Continue before it makes the next call.            *)
(***************************************************************************)
EXTENDS Integers, Sequences, FiniteSets, TLC

VARIABLES
    wallet,   \* the caller's KM UserPoint: [free_point, paid_point]
    config,   \* the KM client's in-memory session config (self._config)
    store,    \* the config directory: file name -> bytes written, or NoFile
    saved,    \* history: file name -> the config last given to save_config
    last      \* the call that has just returned, or Idle

vars == <<wallet, config, store, saved, last>>

-----------------------------------------------------------------------------
(* Bounds of the model.                                                    *)

MaxPoint == 2      \* largest free_point / paid_point balance explored
MaxPrice == 2      \* largest episode / chapter price
MaxBonus == 1      \* largest episode bonus point
MaxBulk == 2       \* longest episode list given to claim_bulk_episode
MaxCoin == 2       \* largest MU coin balance per tier

Min(a, b) == IF a < b THEN a ELSE b
Max(a, b) == IF a > b THEN a ELSE b

Idle == [op |-> "idle"]

-----------------------------------------------------------------------------
(* kmkc/dto.py: UserPoint                                                  *)

UserPoints == [free_point : 0..MaxPoint, paid_point : 0..MaxPoint]

total_point(w) == w.paid_point + w.free_point

can_purchase(w, price) ==
    LET total == w.paid_point + w.free_point
    IN  total >= price

subtract_mut_no_guard(w, price) ==
    [free_point |-> w.free_point - Min(w.free_point, price),
     paid_point |-> w.paid_point - (price - Min(w.free_point, price))]

subtract(w, price) ==
    IF ~can_purchase(w, price)
    THEN w   \* silently fail
    ELSE LET fp_min == Min(w.free_point, price)
             pp_min == Min(w.paid_point, price - fp_min)
         IN  [free_point |-> w.free_point - fp_min,
              paid_point |-> w.paid_point - pp_min]

add(w, bonus) == [w EXCEPT !.free_point = @ + bonus]

-----------------------------------------------------------------------------
(* The binary session record (betterproto): a message is written as the    *)
(* sequence of its non-default fields, each a (field number, wire type,    *)
(* payload) entry; a reader starts from the defaults of its own schema and *)
(* takes the entries whose field numbers it knows.                         *)

DEVICE_MOBILE == 1
DEVICE_WEB == 2
MU_ANDROID == 1
MU_IOS == 2

KMConfigWebKVFields ==
    << [num |-> 1, name |-> "value",   kind |-> "string"],
       [num |-> 2, name |-> "expires", kind |-> "uint"] >>

KMConfigBaseFields ==
    << [num |-> 1, name |-> "id",   kind |-> "string"],
       [num |-> 2, name |-> "type", kind |-> "enum"] >>

KMConfigMobileFields ==
    << [num |-> 1,   name |-> "id",          kind |-> "string"],
       [num |-> 2,   name |-> "type",        kind |-> "enum"],
       [num |-> 3,   name |-> "username",    kind |-> "string"],
       [num |-> 4,   name |-> "email",       kind |-> "string"],
       [num |-> 5,   name |-> "account_id",  kind |-> "uint"],
       [num |-> 6,   name |-> "device_id",   kind |-> "uint"],
       [num |-> 100, name |-> "user_id",     kind |-> "string"],
       [num |-> 101, name |-> "user_secret", kind |-> "string"] >>

KMConfigWebFields ==
    << [num |-> 1,   name |-> "id",         kind |-> "string"],
       [num |-> 2,   name |-> "type",       kind |-> "enum"],
       [num |-> 3,   name |-> "username",   kind |-> "string"],
       [num |-> 4,   name |-> "email",      kind |-> "string"],
       [num |-> 5,   name |-> "account_id", kind |-> "uint"],
       [num |-> 6,   name |-> "device_id",  kind |-> "uint"],
       [num |-> 100, name |-> "uwt",        kind |-> "string"],
       [num |-> 101, name |-> "birthday",   kind |-> "message"],
       [num |-> 102, name |-> "tos_adult",  kind |-> "message"],
       [num |-> 103, name |-> "privacy",    kind |-> "message"] >>

MUConfigFields ==
    << [num |-> 1, name |-> "id",      kind |-> "string"],
       [num |-> 2, name |-> "session", kind |-> "string"],
       [num |-> 3, name |-> "type",    kind |-> "enum"] >>

FieldNames(schema) == {schema[i].name : i \in 1..Len(schema)}

\* What a length-delimited payload reads as when the reader expects another
\* type than the writer wrote.
GarbledString == "<bytes>"

ScalarDefault(kind) == IF kind = "string" THEN "" ELSE 0

ScalarPayload(kind, v) ==
    IF kind = "string" THEN [t |-> "str", s |-> v] ELSE [t |-> "int", n |-> v]

ReadScalar(kind, payload) ==
    IF kind = "string"
    THEN (IF payload.t = "str" THEN payload.s ELSE GarbledString)
    ELSE (IF payload.t = "int" THEN payload.n ELSE 0)

\* bytes(msg) for a message of scalar fields only
SerializeFlat(schema, rec) ==
    LET present == SelectSeq(schema,
                     LAMBDA f : rec[f.name] # ScalarDefault(f.kind))
    IN  [i \in 1..Len(present) |->
            [num |-> present[i].num,
             val |-> ScalarPayload(present[i].kind, rec[present[i].name])]]

\* The payload of field number `num` in `bytes` (the last one wins), or None
HasField(bytes, num) == \E i \in 1..Len(bytes) : bytes[i].num = num

FieldPayload(bytes, num) ==
    LET last_i == CHOOSE i \in 1..Len(bytes) :
                    /\ bytes[i].num = num
                    /\ \A j \in 1..Len(bytes) : bytes[j].num = num => j <= i
    IN  bytes[last_i].val

\* Msg.FromString(bytes) for a message of scalar fields only
ParseFlat(schema, bytes) ==
    [name \in FieldNames(schema) |->
        LET f == CHOOSE g \in {schema[i] : i \in 1..Len(schema)} : g.name = name
        IN  IF HasField(bytes, f.num)
            THEN ReadScalar(f.kind, FieldPayload(bytes, f.num))
            ELSE ScalarDefault(f.kind)]

\* A cookie pair carries betterproto's _serialized_on_wire mark: FALSE on the
\* pair a KMConfigWeb gets when none is given, TRUE on a pair that was built
\* with values or parsed from bytes.  KVDefault is the pair never given.
KVDefault == [value |-> "", expires |-> 0, serialized_on_wire |-> FALSE]

\* bytes(KMConfigWeb): scalar fields as above, each cookie pair nested.  A
\* pair is left out only when it was never given; a pair given with the
\* values "" and 0 is written as an entry with an empty body
SerializeWeb(rec) ==
    LET isDefault(f) == IF f.kind = "message"
                        THEN ~rec[f.name].serialized_on_wire
                        ELSE rec[f.name] = ScalarDefault(f.kind)
        present == SelectSeq(KMConfigWebFields, LAMBDA f : ~isDefault(f))
    IN  [i \in 1..Len(present) |->
            [num |-> present[i].num,
             val |-> IF present[i].kind = "message"
                     THEN [t |-> "msg",
                           m |-> SerializeFlat(KMConfigWebKVFields,
                                               rec[present[i].name])]
                     ELSE ScalarPayload(present[i].kind, rec[present[i].name])]]

\* KMConfigWeb.FromString(bytes)
ParseWeb(bytes) ==
    [name \in FieldNames(KMConfigWebFields) |->
        LET f == CHOOSE g \in {KMConfigWebFields[i] :
                                 i \in 1..Len(KMConfigWebFields)} : g.name = name
        IN  IF f.kind = "message"
            THEN (IF HasField(bytes, f.num)
                  THEN (IF FieldPayload(bytes, f.num).t = "msg"
                        THEN LET kv == ParseFlat(KMConfigWebKVFields,
                                                 FieldPayload(bytes, f.num).m)
                             IN  [value |-> kv.value, expires |-> kv.expires,
                                  serialized_on_wire |-> TRUE]
                        ELSE [value |-> GarbledString, expires |-> 0,
                              serialized_on_wire |-> TRUE])
                  ELSE KVDefault)
            ELSE (IF HasField(bytes, f.num)
                  THEN ReadScalar(f.kind, FieldPayload(bytes, f.num))
                  ELSE ScalarDefault(f.kind))]

\* A config object is its Python class (cls) and its field values (f).
IsWeb(cfg) == cfg.cls = "KMConfigWeb"
IsMobile(cfg) == cfg.cls = "KMConfigMobile"

\* bytes(config), for either variant and for MUConfig
Serialize(cfg) ==
    CASE cfg.cls = "KMConfigWeb"    -> SerializeWeb(cfg.f)
      [] cfg.cls = "KMConfigMobile" -> SerializeFlat(KMConfigMobileFields, cfg.f)
      [] cfg.cls = "MUConfig"       -> SerializeFlat(MUConfigFields, cfg.f)

-----------------------------------------------------------------------------
(* The config directory (USER_PATH).                                       *)

AccountIds == {"acc1", "acc2"}
FileNames == {"kmkc", "musq"} \X AccountIds
NoFile == [exists |-> FALSE, bytes |-> << >>]
EmptyStore == [fn \in FileNames |-> NoFile]

write_bytes_mut_append(st, fn, bytes) ==
    [st EXCEPT ![fn] = [exists |-> TRUE, bytes |-> st[fn].bytes \o bytes]]

\* Path.write_bytes: the file holds exactly the bytes written last
write_bytes(st, fn, bytes) == [st EXCEPT ![fn] = [exists |-> TRUE, bytes |-> bytes]]

\* kmkc/config.py: save_config
km_save_config(st, cfg) == write_bytes(st, <<"kmkc", cfg.f.id>>, Serialize(cfg))

\* musq/config.py: save_config
mu_save_config(st, cfg) == write_bytes(st, <<"musq", cfg.f.id>>, Serialize(cfg))

NoConfig == [cls |-> "None"]
NothingSaved == [fn \in FileNames |-> NoConfig]
UnknownDevice == [cls |-> "ValueError"]

km_dispatch_mut_swapped(conf_type, conf_bita) ==
    IF conf_type = DEVICE_WEB
    THEN [cls |-> "KMConfigMobile", f |-> ParseFlat(KMConfigMobileFields, conf_bita)]
    ELSE IF conf_type = DEVICE_MOBILE
    THEN [cls |-> "KMConfigWeb", f |-> ParseWeb(conf_bita)]
    ELSE UnknownDevice

\* kmkc/config.py: the variant dispatch of get_config on the stored type tag
km_dispatch(conf_type, conf_bita) ==
    IF conf_type = DEVICE_WEB
    THEN [cls |-> "KMConfigWeb", f |-> ParseWeb(conf_bita)]
    ELSE IF conf_type = DEVICE_MOBILE
    THEN [cls |-> "KMConfigMobile", f |-> ParseFlat(KMConfigMobileFields, conf_bita)]
    ELSE UnknownDevice

\* kmkc/config.py: get_config
km_get_config(st, hex_mode) ==
    IF ~st[<<"kmkc", hex_mode>>].exists
    THEN NoConfig
    ELSE LET conf_bita == st[<<"kmkc", hex_mode>>].bytes
             conf_temp == ParseFlat(KMConfigBaseFields, conf_bita)
         IN  km_dispatch(conf_temp.type, conf_bita)

\* musq/config.py: get_config
mu_get_config(st, account_id) ==
    IF ~st[<<"musq", account_id>>].exists
    THEN NoConfig
    ELSE [cls |-> "MUConfig",
          f |-> ParseFlat(MUConfigFields, st[<<"musq", account_id>>].bytes)]

-----------------------------------------------------------------------------
(* kmkc/config.py: the cookies of a response and KMConfigWeb.apply_cookies *)

Absent == [present |-> FALSE]
Cookie(raw) == [present |-> TRUE, raw |-> raw]

\* The cookie texts explored: a percent-encoded token; the JSON object of a
\* key-value cookie, plain and percent-encoded; one whose expires is no
\* number; and a value that is no JSON
KV1700 == "{\"value\":\"v1\",\"expires\":\"1700\"}"
KV1800 == "{\"value\":\"v2\",\"expires\":\"1800\"}"
KV1800Quoted == "%7B%22value%22%3A%22v2%22%2C%22expires%22%3A%221800%22%7D"
KVSoon == "{\"value\":\"v3\",\"expires\":\"soon\"}"
NotJson == "deleted"

\* urllib.parse.unquote on the cookie texts explored
unquote(text) ==
    CASE text = "tok%2F2" -> "tok/2"
      [] text = "tok%2F3" -> "tok/3"
      [] text = KV1800Quoted -> KV1800
      [] OTHER -> text

\* msgspec.json.decode(text, type=_KMConfigWebKVTypes) on the texts explored:
\* the struct, or DecodeError
json_decode(text) ==
    CASE text = KV1700 -> [raised |-> "none", value |-> "v1", expires |-> "1700"]
      [] text = KV1800 -> [raised |-> "none", value |-> "v2", expires |-> "1800"]
      [] text = KVSoon -> [raised |-> "none", value |-> "v3", expires |-> "soon"]
      [] text = NotJson -> [raised |-> "DecodeError"]

\* int() on the texts explored: the number, or ValueError
int(text) ==
    CASE text = "0" -> [raised |-> "none", n |-> 0]
      [] text = "1700" -> [raised |-> "none", n |-> 1700]
      [] text = "1800" -> [raised |-> "none", n |-> 1800]
      [] text = "soon" -> [raised |-> "ValueError"]

RawUwt == {"tok1", "tok%2F2"}
RawKV == {KV1700, KV1800Quoted, KVSoon, NotJson}

\* The cookies a response sets
CookieJars ==
    [uwt : {Absent} \cup {Cookie(r) : r \in RawUwt},
     birthday : {Absent} \cup {Cookie(r) : r \in RawKV},
     terms_of_service_adult : {Absent} \cup {Cookie(r) : r \in RawKV},
     privacy_policy : {Absent} \cup {Cookie(r) : r \in RawKV}]

EmptyJar == [uwt |-> Absent, birthday |-> Absent,
             terms_of_service_adult |-> Absent, privacy_policy |-> Absent]

\* KMConfigWebKV.from_cookie_dict: the pair, or the ValueError of int()
from_cookie_dict(cookie_dict) ==
    LET expires == int(cookie_dict.expires)
    IN  IF expires.raised # "none"
        THEN [raised |-> expires.raised]
        ELSE [raised |-> "none",
              kv |-> [value |-> cookie_dict.value, expires |-> expires.n,
                      serialized_on_wire |-> TRUE]]

\* KMConfigWeb.apply_cookies: the four cookies in turn, each assigned when
\* the response holds it.  A cookie that does not decode raises out of the
\* method, with the fields assigned before it already changed
apply_cookies(cfg, cookies) ==
    LET uwt_applied ==
            [cfg EXCEPT !.f.uwt = IF cookies.uwt.present
                                  THEN unquote(cookies.uwt.raw) ELSE @]
        assign(acc, field, cookie) ==
            IF acc.raised # "none" \/ ~cookie.present THEN acc
            ELSE LET decoded == json_decode(unquote(cookie.raw))
                     pair == from_cookie_dict(decoded)
                 IN  IF decoded.raised # "none"
                     THEN [acc EXCEPT !.raised = decoded.raised]
                     ELSE IF pair.raised # "none"
                     THEN [acc EXCEPT !.raised = pair.raised]
                     ELSE [acc EXCEPT !.config.f[field] = pair.kv]
        birthday == assign([config |-> uwt_applied, raised |-> "none"],
                           "birthday", cookies.birthday)
        tos_adult == assign(birthday, "tos_adult", cookies.terms_of_service_adult)
    IN  assign(tos_adult, "privacy", cookies.privacy_policy)

\* The session configs a client is constructed with.
WebConfig(id) ==
    [cls |-> "KMConfigWeb",
     f |-> [id |-> id, type |-> DEVICE_WEB, username |-> "", email |-> "temp@kmkc.xyz",
            account_id |-> 0, device_id |-> 0, uwt |-> "tok0",
            birthday |-> [value |-> "v0", expires |-> 1700, serialized_on_wire |-> TRUE],
            tos_adult |-> [value |-> "v0", expires |-> 1700, serialized_on_wire |-> TRUE],
            privacy |-> [value |-> "v0", expires |-> 1700, serialized_on_wire |-> TRUE]]]

MobileConfig(id) ==
    [cls |-> "KMConfigMobile",
     f |-> [id |-> id, type |-> DEVICE_MOBILE, username |-> "user", email |-> "u@kmkc.xyz",
            account_id |-> 7, device_id |-> 9, user_id |-> "uid", user_secret |-> "sec"]]

\* KMClientBase.request, after the HTTP round trip: what the response's cookies
\* do to the in-memory config and to the config directory (sv: the history of
\* saved configs)
request_effect(cfg, st, sv, cookies) ==
    IF IsWeb(cfg)
    THEN LET applied == apply_cookies(cfg, cookies)
             new == applied.config
         IN  IF applied.raised # "none"
             THEN [config |-> new, store |-> st, saved |-> sv, writes |-> 0,
                   raised |-> applied.raised]
             ELSE [config |-> new, store |-> km_save_config(st, new),
                   saved |-> [sv EXCEPT ![<<"kmkc", new.f.id>>] = new],
                   writes |-> 1, raised |-> "none"]
    ELSE [config |-> cfg, store |-> st, saved |-> sv, writes |-> 0,
          raised |-> "none"]

-----------------------------------------------------------------------------
(* kmkc/dto.py: the decoded responses, and KMClientBase._make_response     *)

MaxServerPaid == 2   \* largest paid_point a purchase response declares
ErrorCodes == {7}    \* the non-zero response_code values explored

FailedResponses ==
    {[status |-> s, response_code |-> c, error_message |-> "denied",
      account_point |-> 0, paid_point |-> 0, earned_point_back |-> 0]
        : s \in {"fail", "success"}, c \in ErrorCodes}

EpisodePurchaseResponses ==
    FailedResponses \cup
    {[status |-> "success", response_code |-> 0, error_message |-> "",
      account_point |-> 0, paid_point |-> p, earned_point_back |-> 0]
        : p \in 0..MaxServerPaid}

BulkEpisodePurchaseResponses ==
    FailedResponses \cup
    {[status |-> "success", response_code |-> 0, error_message |-> "",
      account_point |-> 0, paid_point |-> p, earned_point_back |-> b]
        : p \in 0..MaxServerPaid, b \in 0..MaxBonus}

raises_for_status_mut_status_text(resp) == resp.status = "fail"

\* StatusResponse.raise_for_status: whether it raises KMAPIError
raises_for_status(resp) == resp.response_code # 0

\* KMClientBase._make_response: either KMAPIError(code, message) or the payload
make_response(resp) ==
    IF raises_for_status(resp)
    THEN [raised |-> "KMAPIError", code |-> resp.response_code,
          message |-> resp.error_message]
    ELSE [raised |-> "none", code |-> 0, message |-> "", parsed |-> resp]

-----------------------------------------------------------------------------
(* kmkc/client.py: KMClientWeb.claim_episode_with_point, claim_bulk_episode *)

EpisodeIds == {101}
EpisodeEntries ==
    [episode_id : EpisodeIds, point : 0..MaxPrice, bonus_point : 0..MaxBonus]

SeqsUpTo(S, n) == UNION {[1..k -> S] : k \in 0..n}
EpisodeLists == SeqsUpTo(EpisodeEntries, MaxBulk)

NoResponse == [status |-> "none"]

bulk_step_mut_no_running(acc, episode) ==
    IF ~acc.ok \/ ~can_purchase(acc.wallet_copy, episode.point)
    THEN [acc EXCEPT !.ok = FALSE]
    ELSE [acc EXCEPT !.paid_point = @ + episode.point,
                     !.bonus_point = @ + episode.bonus_point]

bulk_step_mut_alias(acc, episode) ==
    IF ~acc.ok \/ ~can_purchase(acc.wallet_copy, episode.point)
    THEN [acc EXCEPT !.ok = FALSE]
    ELSE [acc EXCEPT !.wallet_copy = add(subtract(acc.wallet_copy, episode.point),
                                         episode.bonus_point),
                     !.wallet = add(subtract(acc.wallet, episode.point),
                                    episode.bonus_point),
                     !.paid_point = @ + episode.point,
                     !.bonus_point = @ + episode.bonus_point]

\* One turn of the loop of claim_bulk_episode over the wallet copy; ok turns
\* FALSE where the loop raises KMNotEnoughPointError
bulk_step(acc, episode) ==
    IF ~acc.ok \/ ~can_purchase(acc.wallet_copy, episode.point)
    THEN [acc EXCEPT !.ok = FALSE]
    ELSE [acc EXCEPT !.wallet_copy = add(subtract(acc.wallet_copy, episode.point),
                                         episode.bonus_point),
                     !.paid_point = @ + episode.point,
                     !.bonus_point = @ + episode.bonus_point]

RECURSIVE bulk_loop(_, _, _)
bulk_loop(acc, episodes, i) ==
    IF i > Len(episodes) THEN acc
    ELSE bulk_loop(bulk_step(acc, episodes[i]), episodes, i + 1)

\* The pre-check of claim_bulk_episode: the loop over a copy of the wallet;
\* `wallet` is the caller's own object as the loop leaves it
bulk_precheck(w, episodes) ==
    bulk_loop([ok |-> TRUE, wallet_copy |-> w, wallet |-> w,
               paid_point |-> 0, bonus_point |-> 0],
              episodes, 1)

InRange(w) == w.free_point <= MaxPoint /\ w.paid_point <= MaxPoint

\* The cookies the backend sets on a purchase response: a rotated uwt token
PurchaseJars == {[EmptyJar EXCEPT !.uwt = Cookie("tok%2F2")]}

ClaimEpisodeWithPoint(episode) ==
    /\ last = Idle
    /\ IsWeb(config)
    /\ IF ~can_purchase(wallet, episode.point)
       THEN /\ last' = [op |-> "claim_episode_with_point", episode |-> episode,
                        before |-> wallet, resp |-> NoResponse,
                        raised |-> "KMNotEnoughPointError",
                        code |-> 0, message |-> "", parsed |-> NoResponse,
                        sent |-> << >>, writes |-> 0]
            /\ UNCHANGED <<wallet, config, store, saved>>
       ELSE \E resp \in EpisodePurchaseResponses, cookies \in PurchaseJars :
            LET form_data == [episode_id |-> episode.episode_id,
                              check_point |-> episode.point]
                sent == << [method |-> "POST", path |-> "/episode/paid",
                            data |-> form_data] >>
                eff == request_effect(config, store, saved, cookies)
                made == make_response(resp)
            IN  /\ config' = eff.config
                /\ store' = eff.store
                /\ saved' = eff.saved
                /\ wallet' = IF made.raised = "none"
                             THEN add(subtract(wallet, made.parsed.paid_point),
                                      episode.bonus_point)
                             ELSE wallet
                /\ InRange(wallet')
                /\ last' = [op |-> "claim_episode_with_point", episode |-> episode,
                            before |-> wallet, resp |-> resp,
                            raised |-> made.raised, code |-> made.code,
                            message |-> made.message,
                            parsed |-> IF made.raised = "none" THEN made.parsed
                                       ELSE NoResponse,
                            sent |-> sent, writes |-> eff.writes]

ClaimBulkEpisode(episodes) ==
    /\ last = Idle
    /\ IsWeb(config)
    /\ LET pre == bulk_precheck(wallet, episodes)
       IN  IF ~pre.ok
           THEN /\ last' = [op |-> "claim_bulk_episode", episodes |-> episodes,
                            before |-> wallet, resp |-> NoResponse,
                            raised |-> "KMNotEnoughPointError",
                            code |-> 0, message |-> "", parsed |-> NoResponse,
                            sent |-> << >>, writes |-> 0]
                /\ wallet' = pre.wallet
                /\ UNCHANGED <<config, store, saved>>
           ELSE \E resp \in BulkEpisodePurchaseResponses, cookies \in PurchaseJars :
                LET form_data ==
                        [episode_id_list |->
                            [i \in 1..Len(episodes) |-> episodes[i].episode_id],
                         paid_point |-> pre.paid_point,
                         point_back |-> pre.bonus_point]
                    sent == << [method |-> "POST", path |-> "/episode/paid/bulk",
                                data |-> form_data] >>
                    eff == request_effect(config, store, saved, cookies)
                    made == make_response(resp)
                IN  /\ config' = eff.config
                    /\ store' = eff.store
                    /\ saved' = eff.saved
                    /\ wallet' = IF made.raised = "none"
                                 THEN add(subtract(pre.wallet, made.parsed.paid_point),
                                          made.parsed.earned_point_back)
                                 ELSE pre.wallet
                    /\ InRange(wallet')
                    /\ last' = [op |-> "claim_bulk_episode", episodes |-> episodes,
                                before |-> wallet, resp |-> resp,
                                raised |-> made.raised, code |-> made.code,
                                message |-> made.message,
                                parsed |-> IF made.raised = "none" THEN made.parsed
                                           ELSE NoResponse,
                                sent |-> sent, writes |-> eff.writes]

\* UserPoint.subtract called on the wallet
Subtract(price) ==
    /\ last = Idle
    /\ wallet' = subtract(wallet, price)
    /\ last' = [op |-> "subtract", price |-> price, before |-> wallet,
                raised |-> "none", sent |-> << >>, writes |-> 0]
    /\ UNCHANGED <<config, store, saved>>

\* UserPoint.add called on the wallet
Add(bonus) ==
    /\ last = Idle
    /\ wallet' = add(wallet, bonus)
    /\ InRange(wallet')
    /\ last' = [op |-> "add", bonus |-> bonus, before |-> wallet,
                raised |-> "none", sent |-> << >>, writes |-> 0]
    /\ UNCHANGED <<config, store, saved>>

\* The caller takes the result and goes on to its next call.
Continue ==
    /\ last # Idle
    /\ last.op = "listing" => last.status # "running"
    /\ last' = Idle
    /\ UNCHANGED <<wallet, config, store, saved>>

-----------------------------------------------------------------------------
(* musq: ConsumeCoin (models.py), Chapter and UserPoint (proto.py), and    *)
(* MUClient.calculate_coin / get_chapter_images (client.py)                *)

ANY_ITEMS == 0
EVENT_OR_PAID == 1
PAID_ONLY == 2
UNRECOGNIZED == -1
STATUS_SUCCESS == 0
STATUS_CONTENT_NOT_FOUND == 1

MaxChapterPrice == 3   \* largest chapter price explored

Purses == [free : 0..MaxCoin, event : 0..MaxCoin, paid : 0..MaxCoin]
Chapters == [id : {201}, price : 0..MaxChapterPrice,
             consumption : {ANY_ITEMS, EVENT_OR_PAID, PAID_ONLY, UNRECOGNIZED}]
ConsumeCoins == [free : 0..MaxCoin, event : 0..MaxCoin, paid : 0..MaxCoin,
                 need : 0..MaxChapterPrice]

is_possible_mut_strict(coins) == coins.free + coins.event + coins.paid > coins.need

\* ConsumeCoin.is_possible
is_possible(coins) == coins.free + coins.event + coins.paid >= coins.need

\* ConsumeCoin.is_free
coin_is_free(coins) == coins.need = 0

\* Chapter.is_free
chapter_is_free(chapter) == chapter.price = 0

\* An optional argument: None, or a value
None == << >>
Some(x) == << x >>

\* MUClient._build_coin
build_coin(need_coin, free_coin, event_coin, paid_coin) ==
    [free |-> free_coin,
     event |-> IF event_coin = None THEN free_coin ELSE event_coin[1],
     paid |-> IF paid_coin = None THEN free_coin ELSE paid_coin[1],
     need |-> need_coin]

calculate_event_or_paid_mut_free(user_point, chapter) ==
    build_coin(chapter.price, user_point.free, Some(user_point.event),
               Some(Min(user_point.paid, Max(chapter.price - user_point.event, 0))))

\* calculate_coin, case ConsumptionType.EVENT_OR_PAID
calculate_event_or_paid(user_point, chapter) ==
    LET event == user_point.event
        paid == user_point.paid
        cprice == Max(chapter.price - event, 0)
    IN  IF cprice <= 0
        THEN build_coin(chapter.price, 0, Some(event), Some(0))
        ELSE LET cprice2 == Max(cprice - paid, 0)
                 paid_diff == IF cprice2 > 0 THEN paid
                              ELSE Max(chapter.price - event, 0)
             IN  build_coin(chapter.price, 0, Some(event), Some(paid_diff))

calculate_any_items_mut_uncapped(user_point, chapter) ==
    IF user_point.free + user_point.event + user_point.paid >= chapter.price
    THEN build_coin(chapter.price, user_point.free, Some(user_point.event),
                    Some(Max(chapter.price - user_point.free - user_point.event, 0)))
    ELSE build_coin(chapter.price, user_point.free, Some(user_point.event),
                    Some(user_point.paid))

\* calculate_coin, case ConsumptionType.ANY_ITEMS
calculate_any_items(user_point, chapter) ==
    LET free == user_point.free
        event == user_point.event
        paid == user_point.paid
        cprice == Max(chapter.price - free, 0)
    IN  IF cprice <= 0
        THEN build_coin(chapter.price, chapter.price, Some(0), Some(0))
        ELSE LET cprice2 == Max(cprice - event, 0)
             IN  IF cprice2 <= 0
                 THEN build_coin(chapter.price, free, Some(chapter.price - free), Some(0))
                 ELSE LET cprice3 == Max(cprice2 - paid, 0)
                          paid_diff == IF cprice3 > 0 THEN paid
                                       ELSE Max(chapter.price - free - event, 0)
                      IN  build_coin(chapter.price, free, Some(event), Some(paid_diff))

calculate_paid_only_mut_partial(user_point, chapter) ==
    build_coin(chapter.price, 0, Some(0), Some(Min(user_point.paid, chapter.price)))

\* calculate_coin, case ConsumptionType.PAID_ONLY
calculate_paid_only(user_point, chapter) ==
    LET paid_left == user_point.paid - chapter.price
    IN  IF paid_left < 0
        THEN build_coin(chapter.price, 0, Some(0), Some(0))
        ELSE build_coin(chapter.price, 0, Some(0), Some(chapter.price))

\* MUClient.calculate_coin: the ConsumeCoin, or ValueError for an unknown type
calculate_coin(user_point, chapter) ==
    IF chapter_is_free(chapter)
    THEN [raised |-> "none", coin |-> build_coin(0, 0, None, None)]
    ELSE CASE chapter.consumption = ANY_ITEMS ->
                [raised |-> "none", coin |-> calculate_any_items(user_point, chapter)]
           [] chapter.consumption = EVENT_OR_PAID ->
                [raised |-> "none", coin |-> calculate_event_or_paid(user_point, chapter)]
           [] chapter.consumption = PAID_ONLY ->
                [raised |-> "none", coin |-> calculate_paid_only(user_point, chapter)]
           [] OTHER -> [raised |-> "ValueError"]

CalculateCoin(user_point, chapter) ==
    /\ last = Idle
    /\ last' = [op |-> "calculate_coin", user_point |-> user_point,
                chapter |-> chapter, result |-> calculate_coin(user_point, chapter),
                sent |-> << >>, writes |-> 0]
    /\ UNCHANGED <<wallet, config, store, saved>>

\* ConsumeCoin.is_possible() and ConsumeCoin.is_free read on one ConsumeCoin
ConsumeCoinChecks(coins) ==
    /\ last = Idle
    /\ last' = [op |-> "consume_coin", coins |-> coins,
                is_possible |-> is_possible(coins), is_free |-> coin_is_free(coins),
                sent |-> << >>, writes |-> 0]
    /\ UNCHANGED <<wallet, config, store, saved>>

QUALITY_FORMAT == {"middle", "high"}
\* models.py: the values of the Quality enum
QualityValues == {"middle", "high"}

\* The viewer endpoint's answer: the HTTP status class and the decoded status
ViewerResponses == [http_ok : BOOLEAN, status : {STATUS_SUCCESS, STATUS_CONTENT_NOT_FOUND}]

coins_allowed_mut_unchecked(coins) == TRUE

\* get_chapter_images: the affordability check before the request is built
coins_allowed(coins) == is_possible(coins)

GetChapterImages(chapter_id, coins, quality) ==
    /\ last = Idle
    /\ UNCHANGED <<wallet, config, store, saved>>
    /\ IF quality \notin QUALITY_FORMAT
       THEN last' = [op |-> "get_chapter_images", coins |-> coins, quality |-> quality,
                     raised |-> "ValueError", why |-> "Invalid quality format",
                     sent |-> << >>, writes |-> 0]
       ELSE IF ~coins_allowed(coins)
       THEN last' = [op |-> "get_chapter_images", coins |-> coins, quality |-> quality,
                     raised |-> "ValueError", why |-> "Insufficient coins",
                     sent |-> << >>, writes |-> 0]
       ELSE \E resp \in ViewerResponses :
            LET params == [chapter_id |-> chapter_id, free_point |-> coins.free,
                           event_point |-> coins.event, paid_point |-> coins.paid,
                           quality |-> quality]
                sent == << [method |-> "POST", path |-> "/manga/viewer",
                            data |-> params] >>
            IN  last' = [op |-> "get_chapter_images", coins |-> coins,
                         quality |-> quality,
                         raised |-> IF ~resp.http_ok THEN "HTTPError"
                                    ELSE IF resp.status # STATUS_SUCCESS
                                    THEN "RuntimeError" ELSE "none",
                         why |-> "", sent |-> sent, writes |-> 0]

-----------------------------------------------------------------------------
(* The KM wallet and its purchase calls.                                   *)

\* The client is built from the account's stored configuration
Init ==
    /\ wallet \in UserPoints
    /\ config = WebConfig("acc1")
    /\ store = km_save_config(EmptyStore, config)
    /\ saved = [NothingSaved EXCEPT ![<<"kmkc", config.f.id>>] = config]
    /\ last = Idle

Next ==
    \/ \E episode \in EpisodeEntries : ClaimEpisodeWithPoint(episode)
    \/ \E episodes \in EpisodeLists : ClaimBulkEpisode(episodes)
    \/ \E price \in 0..MaxServerPaid : Subtract(price)
    \/ \E bonus \in 0..MaxBonus : Add(bonus)
    \/ Continue

Spec == Init /\ [][Next]_vars

(* The single-item purchase paths of both sources: the KM point claim, and *)
(* the MU coin calculation and chapter viewer call.                        *)

NextPurchase ==
    \/ \E episode \in EpisodeEntries : ClaimEpisodeWithPoint(episode)
    \/ \E user_point \in Purses, chapter \in Chapters :
            CalculateCoin(user_point, chapter)
    \/ \E coins \in ConsumeCoins, quality \in QualityValues :
            GetChapterImages(201, coins, quality)
    \/ \E coins \in ConsumeCoins : ConsumeCoinChecks(coins)
    \/ Continue

SpecPurchase == Init /\ [][NextPurchase]_vars

-----------------------------------------------------------------------------
(* Properties of the purchase clients.                                     *)

RECURSIVE SumPoint(_, _)
SumPoint(episodes, n) ==
    IF n = 0 THEN 0 ELSE SumPoint(episodes, n - 1) + episodes[n].point

RECURSIVE SumBonus(_, _)
SumBonus(episodes, n) ==
    IF n = 0 THEN 0 ELSE SumBonus(episodes, n - 1) + episodes[n].bonus_point

\* The balance the i-th episode of a list meets when the earlier ones were
\* all paid for and their bonuses credited
BalanceAtTurn(w, episodes, i) ==
    w.free_point + w.paid_point - SumPoint(episodes, i - 1) + SumBonus(episodes, i - 1)

AffordableInTurn(w, episodes) ==
    \A i \in 1..Len(episodes) : BalanceAtTurn(w, episodes, i) >= episodes[i].point

IsBulk == last.op = "claim_bulk_episode"
IsSingle == last.op = "claim_episode_with_point"

\* C1: claim_bulk_episode checks the episodes in list order against one running
\* balance (price deducted, bonus credited after each); if an episode is
\* unaffordable at its turn it raises KMNotEnoughPointError and sends nothing,
\* otherwise it sends exactly one bulk-purchase request naming the whole list.
C1_BulkPrecheck ==
    IsBulk =>
        IF AffordableInTurn(last.before, last.episodes)
        THEN /\ last.raised # "KMNotEnoughPointError"
             /\ Len(last.sent) = 1
             /\ last.sent[1].path = "/episode/paid/bulk"
             /\ last.sent[1].data.episode_id_list =
                    [i \in 1..Len(last.episodes) |-> last.episodes[i].episode_id]
             /\ last.sent[1].data.paid_point = SumPoint(last.episodes, Len(last.episodes))
        ELSE /\ last.raised = "KMNotEnoughPointError"
             /\ last.sent = << >>
             /\ wallet = last.before

\* A list of two episodes, each affordable on its own, that is refused because
\* the second is unaffordable once the first is deducted
C1_Witness ==
    /\ IsBulk
    /\ Len(last.episodes) = 2
    /\ \A i \in 1..2 : can_purchase(last.before, last.episodes[i].point)
    /\ last.raised = "KMNotEnoughPointError"
    /\ last.sent = << >>

\* C27: when claim_episode_with_point or claim_bulk_episode fails, locally
\* with KMNotEnoughPointError or with a KMAPIError declared by the backend,
\* the caller's wallet is exactly as it was before the call.
C27_FailureKeepsWallet ==
    ((IsBulk \/ IsSingle)
        /\ last.raised \in {"KMNotEnoughPointError", "KMAPIError"}) =>
        wallet = last.before

\* a bulk claim refused at its second episode, after the first was simulated
\* as bought on the copy
C27_Witness ==
    /\ IsBulk
    /\ Len(last.episodes) = 2
    /\ last.episodes[1].point > 0
    /\ can_purchase(last.before, last.episodes[1].point)
    /\ last.raised = "KMNotEnoughPointError"
    /\ wallet = last.before

\* C3 (as claimed): after a successful purchase the wallet total is the total
\* before, minus the paid_point the server declared, plus the credited bonus,
\* whatever paid_point the server declared.
C3_ReconciledWithServer ==
    ((IsBulk \/ IsSingle) /\ last.raised = "none") =>
        total_point(wallet) =
            total_point(last.before) - last.parsed.paid_point
            + (IF IsBulk THEN last.parsed.earned_point_back
               ELSE last.episode.bonus_point)

\* C4: a single-item purchase request is sent only after the affordability
\* check passed; otherwise the call raises and nothing is sent.
C4_CheckedBeforeSend ==
    /\ IsSingle =>
          IF last.before.free_point + last.before.paid_point < last.episode.point
          THEN last.raised = "KMNotEnoughPointError" /\ last.sent = << >>
          ELSE Len(last.sent) = 1 /\ last.sent[1].path = "/episode/paid"
    /\ last.op = "get_chapter_images" =>
          IF last.coins.free + last.coins.event + last.coins.paid < last.coins.need
          THEN /\ last.raised = "ValueError"
               /\ last.why = "Insufficient coins"
               /\ last.sent = << >>
          ELSE Len(last.sent) = 1 /\ last.sent[1].path = "/manga/viewer"

\* get_chapter_images refused a ConsumeCoin that holds some coins, but fewer
\* than the chapter needs
C4_Witness ==
    /\ last.op = "get_chapter_images"
    /\ last.coins.free + last.coins.event + last.coins.paid > 0
    /\ last.raised = "ValueError"
    /\ last.sent = << >>

\* C5: subtract(price) with price <= free_point + paid_point takes
\* min(free_point, price) from free_point and the remainder from paid_point;
\* with price above the total it changes nothing and raises nothing.
C5_Subtract ==
    last.op = "subtract" =>
        LET b == last.before
            p == last.price
        IN  IF p <= b.free_point + b.paid_point
            THEN /\ wallet.free_point = b.free_point - Min(b.free_point, p)
                 /\ wallet.paid_point = b.paid_point - (p - Min(b.free_point, p))
                 /\ total_point(wallet) = total_point(b) - p
            ELSE wallet = b /\ last.raised = "none"

\* subtract of a price above a non-empty wallet's total
C5_Witness ==
    /\ last.op = "subtract"
    /\ last.price > total_point(last.before)
    /\ total_point(last.before) > 0
    /\ wallet = last.before

\* C6: free_point and paid_point are never negative, and total_point is their
\* sum, after any sequence of calls with non-negative arguments.
C6_NonNegative ==
    /\ wallet.free_point >= 0
    /\ wallet.paid_point >= 0
    /\ total_point(wallet) = wallet.free_point + wallet.paid_point

\* a subtract that took from both balances and emptied the wallet
C6_Witness ==
    /\ last.op = "subtract"
    /\ last.before.free_point > 0
    /\ last.before.paid_point > 0
    /\ last.price = total_point(last.before)
    /\ wallet.free_point = 0 /\ wallet.paid_point = 0

\* C7: a response with a non-zero response_code makes _make_response raise
\* KMAPIError with that code and message and no payload; the payload is
\* returned only for response_code 0.
C7_ApiErrorRaised ==
    ((IsBulk \/ IsSingle) /\ last.resp # NoResponse) =>
        IF last.resp.response_code # 0
        THEN /\ last.raised = "KMAPIError"
             /\ last.code = last.resp.response_code
             /\ last.message = last.resp.error_message
             /\ last.parsed = NoResponse
             /\ wallet = last.before
        ELSE /\ last.raised = "none"
             /\ last.parsed = last.resp

\* a response that says "success" in its status text and carries an error code
C7_Witness ==
    /\ IsSingle
    /\ last.resp # NoResponse
    /\ last.resp.status = "success"
    /\ last.resp.response_code # 0
    /\ last.raised = "KMAPIError"

\* C2 (as claimed): in each consumption mode calculate_coin returns a
\* ConsumeCoin whose free + event + paid is at most the chapter price and whose
\* need is the chapter price.
C2_AtMostPrice ==
    (last.op = "calculate_coin" /\ last.result.raised = "none") =>
        /\ last.result.coin.free + last.result.coin.event + last.result.coin.paid
              <= last.chapter.price
        /\ last.result.coin.need = last.chapter.price

IsCoin(mode) ==
    /\ last.op = "calculate_coin"
    /\ last.chapter.consumption = mode

\* C12: in any-coin mode calculate_coin draws free = min(free balance, price),
\* event = min(event balance, price - free drawn) and paid = min(paid balance,
\* price - free drawn - event drawn).
C12_AnyCoinTiers ==
    IsCoin(ANY_ITEMS) =>
        LET up == last.user_point
            price == last.chapter.price
            coin == last.result.coin
        IN  /\ last.result.raised = "none"
            /\ coin.free = Min(up.free, price)
            /\ coin.event = Min(up.event, price - coin.free)
            /\ coin.paid = Min(up.paid, price - coin.free - coin.event)

\* an any-coin chapter paid from all three tiers, the free and event balances
\* used up and the paid balance only in part
C12_Witness ==
    /\ IsCoin(ANY_ITEMS)
    /\ last.result.coin.free = last.user_point.free
    /\ last.result.coin.event = last.user_point.event
    /\ last.result.coin.free > 0
    /\ last.result.coin.event > 0
    /\ last.result.coin.paid > 0
    /\ last.result.coin.paid < last.user_point.paid

\* C13: in paid-only mode calculate_coin returns paid = price with
\* free = event = 0 when the paid balance covers the price, and all-zero
\* components otherwise.
C13_PaidOnlyAllOrNothing ==
    IsCoin(PAID_ONLY) =>
        LET up == last.user_point
            price == last.chapter.price
            coin == last.result.coin
        IN  /\ last.result.raised = "none"
            /\ coin.free = 0
            /\ coin.event = 0
            /\ coin.paid = IF up.paid >= price THEN price ELSE 0

\* a paid-only chapter the purse cannot pay although it holds some paid coins
\* and enough free and event coins
C13_Witness ==
    /\ IsCoin(PAID_ONLY)
    /\ last.user_point.paid > 0
    /\ last.user_point.paid < last.chapter.price
    /\ last.user_point.free + last.user_point.event >= last.chapter.price
    /\ last.result.coin.paid = 0

\* C20: is_possible() is true exactly when free + event + paid >= need, and
\* is_free exactly when need = 0; the all-zero ConsumeCoin is both.
C20_PossibleAndFree ==
    last.op = "consume_coin" =>
        /\ last.is_possible <=>
              (last.coins.free + last.coins.event + last.coins.paid >= last.coins.need)
        /\ last.is_free <=> (last.coins.need = 0)
        /\ last.coins = [free |-> 0, event |-> 0, paid |-> 0, need |-> 0] =>
              (last.is_possible /\ last.is_free)

\* a ConsumeCoin that holds exactly the coins needed: possible, not free
C20_Witness ==
    /\ last.op = "consume_coin"
    /\ last.coins.need > 0
    /\ last.coins.free + last.coins.event + last.coins.paid = last.coins.need
    /\ last.is_possible
    /\ ~last.is_free

\* The balance a chapter's consumption mode may draw on
EligibleBalance(user_point, mode) ==
    CASE mode = ANY_ITEMS -> user_point.free + user_point.event + user_point.paid
      [] mode = EVENT_OR_PAID -> user_point.event + user_point.paid
      [] mode = PAID_ONLY -> user_point.paid

\* C26: for a chapter with a price, the result of calculate_coin is possible
\* exactly when the balance eligible for the chapter's mode covers the price;
\* a chapter of price 0 yields an all-zero, possible result.
C26_PossibleIffCovered ==
    (/\ last.op = "calculate_coin"
     /\ last.chapter.consumption \in {ANY_ITEMS, EVENT_OR_PAID, PAID_ONLY}
        \/ last.chapter.price = 0) =>
        /\ last.result.raised = "none"
        /\ IF last.chapter.price = 0
           THEN /\ last.result.coin = [free |-> 0, event |-> 0, paid |-> 0, need |-> 0]
                /\ is_possible(last.result.coin)
           ELSE is_possible(last.result.coin)
                    <=> EligibleBalance(last.user_point, last.chapter.consumption)
                            >= last.chapter.price

\* an event-or-paid chapter that the free coins alone would cover, found
\* impossible because event and paid coins fall short
C26_Witness ==
    /\ last.op = "calculate_coin"
    /\ last.chapter.consumption = EVENT_OR_PAID
    /\ last.chapter.price = 2
    /\ last.user_point.free >= 2
    /\ last.user_point.event + last.user_point.paid = 1
    /\ last.result.raised = "none"
    /\ ~is_possible(last.result.coin)

-----------------------------------------------------------------------------
(* The KM cookie session: KMClientBase.request on a web or a mobile config. *)

\* kmkc/constants.py
DEVICE_PLATFORM == "3"
DEVICE_VERSION == "6.0.0"
HASH_HEADER == "X-Kmanga-Hash"
HASH_MOBILE_HEADER == "x-mgpk-hash"

MaxParams == 2   \* most entries in a dict a caller passes to request()

\* An optional dict argument: None, or a dict, which keeps insertion order:
\* a sequence of entries with distinct keys
NoDict == [none |-> TRUE, items |-> << >>]
Dict(items) == [none |-> FALSE, items |-> items]

ParamKeys == {"episode_id", "limit", "platform"}
ParamValues == {"1", "2"}
ParamDicts ==
    {Dict(items) : items \in
        {q \in UNION {[1..n -> [k : ParamKeys, v : ParamValues]] : n \in 0..MaxParams} :
            \A i, j \in 1..Len(q) : i # j => q[i].k # q[j].k}}
OptDicts == {NoDict} \cup ParamDicts
HeaderArgs == {NoDict, Dict(<< [k |-> "Accept", v |-> "application/json"] >>)}

\* d[key] = value: a present key keeps its place, a new key goes last
dict_set(items, key, value) ==
    IF \E i \in 1..Len(items) : items[i].k = key
    THEN [i \in 1..Len(items) |->
            IF items[i].k = key THEN [k |-> key, v |-> value] ELSE items[i]]
    ELSE Append(items, [k |-> key, v |-> value])

\* {**base, **extra}
RECURSIVE dict_merge(_, _)
dict_merge(base, extra) ==
    IF extra = << >> THEN base
    ELSE dict_merge(dict_set(base, Head(extra).k, Head(extra).v), Tail(extra))

dict_get(items, key) ==
    items[CHOOSE i \in 1..Len(items) : items[i].k = key].v

\* (arg or {})
or_empty(arg) == IF arg.none THEN << >> ELSE arg.items

\* The order of str on the texts explored (code point order)
SortedStrings ==
    << "", "1", "2", "3", "6.0.0", "episode_id", "limit", "platform", "sec",
       "version" >>
str_rank(text) == CHOOSE i \in 1..Len(SortedStrings) : SortedStrings[i] = text
str_less(a, b) == str_rank(a) < str_rank(b)

sorted_mut_unsorted(texts) == texts

\* sorted(...) / list.sort() on a list of str
sorted(texts) == SortSeq(texts, str_less)

\* str() on the numbers explored
str(n) ==
    CASE n = 0 -> "0"
      [] n = 1700 -> "1700"
      [] n = 1800 -> "1800"

\* hashlib digests: the digest of an input stands for that input and the
\* algorithm, two digests being equal only for equal inputs
md5(x) == [alg |-> "md5", of |-> x]
sha256(x) == [alg |-> "sha256", of |-> x]
sha512(x) == [alg |-> "sha512", of |-> x]

\* hash_kv: f"{key_hash}_{val_hash}"
hash_kv(key, value) == [key_hash |-> sha256(key), val_hash |-> sha512(value)]

\* KMClientBase._create_request_hash
create_request_hash(cfg, query_params) ==
    IF IsMobile(cfg)
    THEN LET with_key == dict_merge(<< [k |-> "hash_key", v |-> cfg.f.user_secret] >>,
                                    query_params)
             values == [i \in 1..Len(with_key) |-> with_key[i].v]
             vals == sorted(values)
         IN  sha256([i \in 1..Len(vals) |-> md5(vals[i])])
    ELSE LET birthday == cfg.f.birthday.value
             expires == str(cfg.f.birthday.expires)
             keys == sorted([i \in 1..Len(query_params) |-> query_params[i].k])
             qi_s == [i \in 1..Len(keys) |->
                        hash_kv(keys[i], dict_get(query_params, keys[i]))]
             qi_s_hashed == sha256(qi_s)
             birth_expire_hash == hash_kv(birthday, expires)
         IN  sha512(<< qi_s_hashed, birth_expire_hash >>)

\* KMClientBase._format_request
format_request(cfg, query, headers) ==
    LET extend_query ==
            dict_merge(<< [k |-> "platform", v |-> DEVICE_PLATFORM],
                          [k |-> "version", v |-> DEVICE_VERSION] >>,
                       or_empty(query))
        req_hash == create_request_hash(cfg, extend_query)
        extend_headers ==
            dict_set(or_empty(headers),
                     IF IsMobile(cfg) THEN HASH_MOBILE_HEADER ELSE HASH_HEADER,
                     req_hash)
    IN  [query |-> extend_query, headers |-> extend_headers]

request_kwargs_mut_params_hash(cfg, data, params, headers) ==
    LET fmt == format_request(cfg, data, headers)
        fmt_p == format_request(cfg, params, NoDict)
    IN  IF data.none
        THEN [key_param |-> "params", payload |-> fmt_p.query,
              headers |-> fmt_p.headers]
        ELSE [key_param |-> "data", payload |-> fmt.query,
              headers |-> dict_set(fmt_p.headers, "Content-Type",
                                   "application/x-www-form-urlencoded")]

\* KMClientBase.request, before the HTTP round trip: the keyword arguments it
\* hands to the HTTP client
request_kwargs(cfg, data, params, headers) ==
    LET fmt == format_request(cfg, data, headers)
        fmt_p == format_request(cfg, params, NoDict)
    IN  IF data.none
        THEN [key_param |-> "params", payload |-> fmt_p.query,
              headers |-> fmt_p.headers]
        ELSE [key_param |-> "data", payload |-> fmt.query,
              headers |-> dict_set(fmt.headers, "Content-Type",
                                   "application/x-www-form-urlencoded")]

\* What the HTTP client does with the request: it returns a response that
\* sets `cookies`, or it raises (no connection, timeout)
Reply(cookies) == [raised |-> "none", cookies |-> cookies]
NoReply == [raised |-> "ConnectionError", cookies |-> EmptyJar]

\* KMClientBase.request: the arguments formatted and signed, one HTTP round
\* trip, the cookies of the response applied and the config saved.  An error
\* of the HTTP client raises before the cookies are looked at, and one of
\* apply_cookies before the save
RequestWith(method, data, params, headers, reply) ==
    /\ last = Idle
    /\ LET new_kwargs == request_kwargs(config, data, params, headers)
           eff == request_effect(config, store, saved, reply.cookies)
           responded == reply.raised = "none"
       IN  /\ config' = IF responded THEN eff.config ELSE config
           /\ store' = IF responded THEN eff.store ELSE store
           /\ saved' = IF responded THEN eff.saved ELSE saved
           /\ last' = [op |-> "request", cookies |-> reply.cookies,
                       responded |-> responded,
                       data |-> data, params |-> params,
                       config_before |-> config, store_before |-> store,
                       raised |-> IF responded THEN eff.raised ELSE reply.raised,
                       sent |-> << [method |-> method,
                                    key_param |-> new_kwargs.key_param,
                                    payload |-> new_kwargs.payload,
                                    headers |-> new_kwargs.headers] >>,
                       writes |-> IF responded THEN eff.writes ELSE 0]
    /\ UNCHANGED wallet

\* request(method, url) with neither data nor params
Request(reply) == RequestWith("GET", NoDict, NoDict, NoDict, reply)

InitSession ==
    /\ wallet = [free_point |-> 0, paid_point |-> 0]
    /\ config \in {WebConfig("acc1"), MobileConfig("acc2")}
    /\ \/ store = EmptyStore /\ saved = NothingSaved
       \/ /\ store = km_save_config(EmptyStore, config)
          /\ saved = [NothingSaved EXCEPT ![<<"kmkc", config.f.id>>] = config]
    /\ last = Idle

NextSession ==
    \/ \E reply \in {Reply(cookies) : cookies \in CookieJars} \cup {NoReply} :
            Request(reply)
    \/ Continue

SpecSession == InitSession /\ [][NextSession]_vars

\* What a cookie the response holds leaves in a field of the config
MergedText(cookie, old) == IF cookie.present THEN unquote(cookie.raw) ELSE old
DecodedKV ==
    (KV1700 :> [value |-> "v1", expires |-> 1700, serialized_on_wire |-> TRUE])
    @@ (KV1800Quoted :> [value |-> "v2", expires |-> 1800, serialized_on_wire |-> TRUE])
MergedKV(field, cookie, old) ==
    IF ~cookie.present THEN field = old
    ELSE cookie.raw \in DOMAIN DecodedKV => field = DecodedKV[cookie.raw]

\* C8: on a web config every request that gets a response merges the
\* response's cookies into the in-memory config (an absent cookie leaves its
\* field as it was) and rewrites the config file once, so the stored record
\* equals the in-memory config; on a mobile config request writes nothing.
C8_CookiesMergedAndSaved ==
    (last.op = "request" /\ last.responded) =>
        LET old == last.config_before
            jar == last.cookies
        IN  IF old.cls = "KMConfigWeb"
            THEN /\ config.cls = "KMConfigWeb"
                 /\ config.f.uwt = MergedText(jar.uwt, old.f.uwt)
                 /\ MergedKV(config.f.birthday, jar.birthday, old.f.birthday)
                 /\ MergedKV(config.f.tos_adult, jar.terms_of_service_adult,
                             old.f.tos_adult)
                 /\ MergedKV(config.f.privacy, jar.privacy_policy, old.f.privacy)
                 /\ \A n \in {"id", "type", "username", "email", "account_id",
                              "device_id"} : config.f[n] = old.f[n]
                 /\ last.writes = 1
                 /\ km_get_config(store, config.f.id) = config
                 /\ \A fn \in FileNames :
                        fn # <<"kmkc", config.f.id>> => store[fn] = last.store_before[fn]
            ELSE /\ config = old
                 /\ store = last.store_before
                 /\ last.writes = 0

-----------------------------------------------------------------------------
(* Request signing: request() called with data and params dicts.           *)

\* The cookies of a response: none, or a new birthday cookie
SigningJars ==
    {EmptyJar, [EmptyJar EXCEPT !.birthday = Cookie(KV1800Quoted)]}

\* The (data, params) a call passes: one of them, neither, or both
RequestArgs ==
    (OptDicts \X {NoDict}) \cup ({NoDict} \X OptDicts)
    \cup (ParamDicts \X {Dict(<< [k |-> "limit", v |-> "2"] >>)})

NextSigning ==
    \/ \E method \in {"GET", "POST"}, args \in RequestArgs, headers \in HeaderArgs,
          reply \in {Reply(cookies) : cookies \in SigningJars} \cup {NoReply} :
            RequestWith(method, args[1], args[2], headers, reply)
    \/ Continue

SpecSigning == InitSession /\ [][NextSigning]_vars

\* A dict as the set of its key/value pairs
AsMap(items) == {<< items[i].k, items[i].v >> : i \in 1..Len(items)}

HasKey(items, key) == \E i \in 1..Len(items) : items[i].k = key

SignatureHeader(cfg) == IF IsMobile(cfg) THEN HASH_MOBILE_HEADER ELSE HASH_HEADER

\* C17: the request carries one signature header; the map sent is the
\* caller's dict (data when given, else params) over the injected platform and
\* version; and every call on the same config that sends the same key/value
\* pairs, in whatever insertion order, as query or as form body, carries the
\* same signature.
C17_SignatureOfSentMap ==
    last.op = "request" =>
        LET cfg == last.config_before
            out == last.sent[1]
            name == SignatureHeader(cfg)
            called == IF ~last.data.none THEN last.data.items
                      ELSE last.params.items
        IN  /\ HasKey(out.headers, name)
            /\ dict_get(out.headers, name) = create_request_hash(cfg, out.payload)
            /\ out.key_param = IF last.data.none THEN "params" ELSE "data"
            /\ AsMap(out.payload) =
                  AsMap(called)
                  \cup {kv \in {<<"platform", DEVICE_PLATFORM>>,
                                <<"version", DEVICE_VERSION>>} :
                            ~HasKey(called, kv[1])}
            /\ \A q \in ParamDicts :
                  LET as_data == request_kwargs(cfg, q, NoDict, NoDict)
                      as_params == request_kwargs(cfg, NoDict, q, NoDict)
                  IN  AsMap(as_data.payload) = AsMap(out.payload) =>
                          /\ AsMap(as_params.payload) = AsMap(out.payload)
                          /\ dict_get(as_data.headers, name)
                                = dict_get(out.headers, name)
                          /\ dict_get(as_params.headers, name)
                                = dict_get(out.headers, name)

\* a web client's form-body request whose two parameters were inserted in
\* descending key order, both data and params given
C17_Witness ==
    /\ last.op = "request"
    /\ last.config_before.cls = "KMConfigWeb"
    /\ ~last.data.none
    /\ ~last.params.none
    /\ Len(last.data.items) = 2
    /\ last.data.items[1].k = "limit"
    /\ last.data.items[2].k = "episode_id"
    /\ last.sent[1].key_param = "data"

-----------------------------------------------------------------------------
(* The config store: save_config and get_config of both sources.           *)

MUConfigOf(id, session, type) ==
    [cls |-> "MUConfig", f |-> [id |-> id, session |-> session, type |-> type]]

\* The session records explored: both KM variants and the MU record, with
\* default-valued (empty, zero) fields among them
KMConfigs ==
    {[WebConfig(id) EXCEPT !.f.uwt = u, !.f.birthday = b] :
        id \in AccountIds, u \in {"", "tok1"},
        b \in {KVDefault,
               [value |-> "", expires |-> 0, serialized_on_wire |-> TRUE],
               [value |-> "v1", expires |-> 1700, serialized_on_wire |-> TRUE],
               [value |-> "", expires |-> 1800, serialized_on_wire |-> TRUE]}}
    \cup
    {[MobileConfig(id) EXCEPT !.f.user_secret = x, !.f.account_id = a] :
        id \in AccountIds, x \in {"", "sec"}, a \in {0, 7}}

MUConfigs ==
    {MUConfigOf(id, session, type) :
        id \in AccountIds, session \in {"", "sess"}, type \in {MU_ANDROID, MU_IOS}}

KMSaveConfig(cfg) ==
    /\ last = Idle
    /\ store' = km_save_config(store, cfg)
    /\ saved' = [saved EXCEPT ![<<"kmkc", cfg.f.id>>] = cfg]
    /\ last' = [op |-> "km_save_config", arg |-> cfg]
    /\ UNCHANGED <<wallet, config>>

MUSaveConfig(cfg) ==
    /\ last = Idle
    /\ store' = mu_save_config(store, cfg)
    /\ saved' = [saved EXCEPT ![<<"musq", cfg.f.id>>] = cfg]
    /\ last' = [op |-> "mu_save_config", arg |-> cfg]
    /\ UNCHANGED <<wallet, config>>

KMGetConfig(id) ==
    /\ last = Idle
    /\ last' = [op |-> "km_get_config", arg |-> id, file |-> <<"kmkc", id>>,
                result |-> km_get_config(store, id)]
    /\ UNCHANGED <<wallet, config, store, saved>>

MUGetConfig(id) ==
    /\ last = Idle
    /\ last' = [op |-> "mu_get_config", arg |-> id, file |-> <<"musq", id>>,
                result |-> mu_get_config(store, id)]
    /\ UNCHANGED <<wallet, config, store, saved>>

InitStore ==
    /\ wallet = [free_point |-> 0, paid_point |-> 0]
    /\ config = WebConfig("acc1")
    /\ store = EmptyStore
    /\ saved = NothingSaved
    /\ last = Idle

NextStore ==
    \/ \E cfg \in KMConfigs : KMSaveConfig(cfg)
    \/ \E cfg \in MUConfigs : MUSaveConfig(cfg)
    \/ \E id \in AccountIds : KMGetConfig(id)
    \/ \E id \in AccountIds : MUGetConfig(id)
    \/ Continue

SpecStore == InitStore /\ [][NextStore]_vars

\* C10: get_config(id) returns None iff nothing was saved under id, and
\* otherwise a record of the variant the stored type tag names, with the field
\* values of the record last saved under that id.
C10_RoundTrip ==
    last.op \in {"km_get_config", "mu_get_config"} =>
        LET want == saved[last.file]
            got == last.result
        IN  /\ (got = NoConfig) <=> (want = NoConfig)
            /\ want # NoConfig =>
                  /\ got.cls = want.cls
                  /\ got.f = want.f
                  /\ last.op = "km_get_config" =>
                        /\ (got.cls = "KMConfigWeb") <=> (want.f.type = DEVICE_WEB)
                        /\ (got.cls = "KMConfigMobile") <=> (want.f.type = DEVICE_MOBILE)

\* a web record with an empty token read back after it replaced a mobile
\* record saved under the same id
C10_Witness ==
    /\ last.op = "km_get_config"
    /\ last.result.cls = "KMConfigWeb"
    /\ last.result.f.uwt = ""
    /\ last.result.f.birthday.expires = 1800
    /\ last.result = saved[last.file]

-----------------------------------------------------------------------------
(* get_all_config of both sources: every session file of the directory,   *)
(* in the order the directory listing (glob) yields them.                  *)

\* The files of one source that exist
ExistingFiles(st, source) ==
    {fn \in FileNames : fn[1] = source /\ st[fn].exists}

\* USER_PATH.glob(...): the existing files of the source, in any order
GlobOrders(st, source) ==
    LET files == ExistingFiles(st, source)
    IN  {order \in [1..Cardinality(files) -> files] :
            \A i, j \in 1..Cardinality(files) : i # j => order[i] # order[j]}

\* kmkc get_all_config: the loop over the globbed files; a file whose type
\* tag is neither WEB nor MOBILE raises out of the loop
RECURSIVE km_load_loop(_, _, _, _)
km_load_loop(st, order, i, parsed_conf) ==
    IF i > Len(order)
    THEN [raised |-> "none", configs |-> parsed_conf]
    ELSE LET conf_bita == st[order[i]].bytes
             conf_temp == ParseFlat(KMConfigBaseFields, conf_bita)
             conf == km_dispatch(conf_temp.type, conf_bita)
         IN  IF conf = UnknownDevice
             THEN [raised |-> "ValueError", configs |-> << >>]
             ELSE km_load_loop(st, order, i + 1, Append(parsed_conf, conf))

km_get_all_config(st, order) == km_load_loop(st, order, 1, << >>)

\* musq get_all_config: every globbed file parsed as MUConfig
mu_get_all_config(st, order) ==
    [raised |-> "none",
     configs |-> [i \in 1..Len(order) |->
                    [cls |-> "MUConfig",
                     f |-> ParseFlat(MUConfigFields, st[order[i]].bytes)]]]

KMGetAllConfig ==
    /\ last = Idle
    /\ \E order \in GlobOrders(store, "kmkc") :
          last' = [op |-> "km_get_all_config", source |-> "kmkc",
                   order |-> order, result |-> km_get_all_config(store, order)]
    /\ UNCHANGED <<wallet, config, store, saved>>

MUGetAllConfig ==
    /\ last = Idle
    /\ \E order \in GlobOrders(store, "musq") :
          last' = [op |-> "mu_get_all_config", source |-> "musq",
                   order |-> order, result |-> mu_get_all_config(store, order)]
    /\ UNCHANGED <<wallet, config, store, saved>>

\* Type tags a session file can carry that name no variant of
\* KMConfigDeviceType: the protobuf default, and a tag past the last variant
UnknownTags == {0, DEVICE_WEB + 1}

\* The bytes of a kmkc session file with an unknown type tag
UnknownTagFile(id, tag) ==
    SerializeFlat(KMConfigBaseFields, [id |-> id, type |-> tag])

\* The directory when the program starts: empty, or holding one kmkc session
\* file that this version of the program did not write
InitLoad ==
    /\ wallet = [free_point |-> 0, paid_point |-> 0]
    /\ config = WebConfig("acc1")
    /\ \/ store = EmptyStore
       \/ \E id \in AccountIds, tag \in UnknownTags :
             store = write_bytes(EmptyStore, <<"kmkc", id>>,
                                 UnknownTagFile(id, tag))
    /\ saved = NothingSaved
    /\ last = Idle

NextLoad ==
    \/ \E cfg \in KMConfigs : KMSaveConfig(cfg)
    \/ \E cfg \in MUConfigs : MUSaveConfig(cfg)
    \/ KMGetAllConfig
    \/ MUGetAllConfig
    \/ Continue

SpecLoad == InitLoad /\ [][NextLoad]_vars

\* The session files of the listing that carry a known type tag
ValidFiles(st, source) ==
    {fn \in ExistingFiles(st, source) :
        source = "kmkc" =>
            ParseFlat(KMConfigBaseFields, st[fn].bytes).type
                \in {DEVICE_WEB, DEVICE_MOBILE}}

IsLoad == last.op \in {"km_get_all_config", "mu_get_all_config"}

\* C11 (as claimed): when a session file of the directory carries an unknown
\* type tag, get_all_config still returns the config of every other, valid
\* session file of the directory.
C11_UnknownTagConfined ==
    (IsLoad /\ ExistingFiles(store, last.source) # ValidFiles(store, last.source)) =>
        \A fn \in ValidFiles(store, last.source) :
            \E i \in 1..Len(last.result.configs) :
                last.result.configs[i].f.id = fn[2]

\* C18: in a directory that holds only files written by save_config,
\* get_all_config raises nothing and returns exactly one record per account
\* id saved, and that record is the one last saved under the id.
C18_OneRecordPerId ==
    (IsLoad /\ \A fn \in ExistingFiles(store, last.source) : saved[fn] # NoConfig) =>
        LET configs == last.result.configs
            files == ExistingFiles(store, last.source)
        IN  /\ last.result.raised = "none"
            /\ Len(configs) = Cardinality(files)
            /\ \A fn \in FileNames :
                  (fn[1] = last.source /\ saved[fn] # NoConfig) =>
                      fn \in files
            /\ \A i \in 1..Len(configs) : configs[i] = saved[last.order[i]]
            /\ \A i, j \in 1..Len(configs) :
                  i # j => configs[i].f.id # configs[j].f.id

\* get_all_config listed two kmkc accounts, one of them a web record with an
\* empty (default-valued) token
C18_Witness ==
    /\ last.op = "km_get_all_config"
    /\ Len(last.result.configs) = 2
    /\ \E i \in 1..2 :
          /\ last.result.configs[i].cls = "KMConfigWeb"
          /\ last.result.configs[i].f.uwt = ""
          /\ last.result.configs[i].f.birthday.expires = 1800

-----------------------------------------------------------------------------
(* Listing the episodes of a title: chunk_episodes and one get_episode_list *)
(* request per chunk, as the download command loops over them.             *)

MaxIds == 101              \* longest episode id list explored
DEFAULT_CHUNK_SIZE == 50   \* chunk_episodes(..., chunk_size=50)

\* The episode_id_list of a title with n episodes
EpisodeIdList(n) == [i \in 1..n |-> i]

ChunkSizes == {1, 2, DEFAULT_CHUNK_SIZE}

episode_slice_mut_overlap(episode_ids, i, chunk_size) ==
    SubSeq(episode_ids, i + 1, Min(i + chunk_size + 1, Len(episode_ids)))

\* episode_ids[i : i + chunk_size], i counted from 0
episode_slice(episode_ids, i, chunk_size) ==
    SubSeq(episode_ids, i + 1, Min(i + chunk_size, Len(episode_ids)))

\* chunk_episodes: for i in range(0, len(episode_ids), chunk_size): yield ...
RECURSIVE chunk_from(_, _, _)
chunk_from(episode_ids, i, chunk_size) ==
    IF i >= Len(episode_ids)
    THEN << >>
    ELSE << episode_slice(episode_ids, i, chunk_size) >>
            \o chunk_from(episode_ids, i + chunk_size, chunk_size)

chunk_episodes(episode_ids, chunk_size) == chunk_from(episode_ids, 0, chunk_size)

\* The answers of /episode/list: the episodes asked for, or a backend error
EpisodesListResponses(episodes) ==
    {[status |-> "success", response_code |-> 0, error_message |-> "",
      episode_list |-> episodes]}
    \cup {[status |-> "fail", response_code |-> c, error_message |-> "denied",
           episode_list |-> << >>] : c \in ErrorCodes}

\* The command starts the loop over client.chunk_episodes(episode_id_list)
StartListing(n, chunk_size) ==
    /\ last = Idle
    /\ IsWeb(config)
    /\ LET episode_ids == EpisodeIdList(n)
           chunks == chunk_episodes(episode_ids, chunk_size)
       IN  last' = [op |-> "listing", episode_ids |-> episode_ids,
                    chunk_size |-> chunk_size, chunks |-> chunks,
                    sent |-> << >>, chapters_info |-> << >>,
                    status |-> IF chunks = << >> THEN "done" ELSE "running"]
    /\ UNCHANGED <<wallet, config, store, saved>>

\* One pass of the loop: get_episode_list(episode_ids) on the next chunk; a
\* KMAPIError ends the command
GetEpisodeList ==
    /\ last # Idle
    /\ last.op = "listing"
    /\ last.status = "running"
    /\ LET k == Len(last.sent) + 1
           episodes == last.chunks[k]
       IN  \E resp \in EpisodesListResponses(episodes), cookies \in PurchaseJars :
           LET eff == request_effect(config, store, saved, cookies)
               made == make_response(resp)
               req == [method |-> "POST", path |-> "/episode/list",
                       data |-> [episode_id_list |-> episodes]]
           IN  /\ config' = eff.config
               /\ store' = eff.store
               /\ saved' = eff.saved
               /\ last' = [last EXCEPT
                     !.sent = Append(@, req),
                     !.chapters_info =
                         IF made.raised = "none" THEN @ \o made.parsed.episode_list
                         ELSE @,
                     !.status =
                         IF made.raised # "none" THEN "failed"
                         ELSE IF k = Len(last.chunks) THEN "done"
                         ELSE "running"]
    /\ UNCHANGED wallet

\* The web client of a stored account; the wallet plays no part in listing
InitListing ==
    /\ wallet = [free_point |-> 0, paid_point |-> 0]
    /\ config = WebConfig("acc1")
    /\ store = km_save_config(EmptyStore, config)
    /\ saved = [NothingSaved EXCEPT ![<<"kmkc", config.f.id>>] = config]
    /\ last = Idle

NextListing ==
    \/ \E n \in 0..MaxIds, chunk_size \in ChunkSizes : StartListing(n, chunk_size)
    \/ GetEpisodeList
    \/ Continue

SpecListing == InitListing /\ [][NextListing]_vars

RECURSIVE Flatten(_)
Flatten(seqs) == IF seqs = << >> THEN << >> ELSE Head(seqs) \o Flatten(Tail(seqs))

CeilDiv(n, d) == (n + d - 1) \div d

\* C19: chunk_episodes yields consecutive, non-empty chunks of at most
\* chunk_size ids that together are the id list in order; the requests of a
\* listing are sent one per chunk in chunk order, and a listing that ran to
\* its end has sent exactly ceil(n / chunk_size) of them.
C19_Chunks ==
    last.op = "listing" =>
        LET n == Len(last.episode_ids)
        IN  /\ \A k \in 1..Len(last.chunks) :
                  /\ Len(last.chunks[k]) >= 1
                  /\ Len(last.chunks[k]) <= last.chunk_size
            /\ Flatten(last.chunks) = last.episode_ids
            /\ Len(last.chunks) = CeilDiv(n, last.chunk_size)
            /\ Len(last.sent) <= Len(last.chunks)
            /\ \A k \in 1..Len(last.sent) :
                  /\ last.sent[k].path = "/episode/list"
                  /\ last.sent[k].data.episode_id_list = last.chunks[k]
            /\ last.status = "done" =>
                  /\ Len(last.sent) = CeilDiv(n, last.chunk_size)
                  /\ last.chapters_info = last.episode_ids
            /\ last.status = "running" => Len(last.sent) < Len(last.chunks)

\* a title of 101 episodes listed with the default chunk size: three
\* requests, the last one for a single id
C19_Witness ==
    /\ last.op = "listing"
    /\ last.status = "done"
    /\ last.chunk_size = DEFAULT_CHUNK_SIZE
    /\ Len(last.episode_ids) = 101
    /\ Len(last.sent) = 3
    /\ Len(last.sent[3].data.episode_id_list) = 1

-----------------------------------------------------------------------------
(* cli/impl/kmkc/accounts.py: the authweb command, kmkc_auth_session.      *)

\* KMConfigWeb.from_cookies; uuid stands for str(uuid4()).  The three
\* key-value cookies are decoded in turn (TypeError is unquote(None), for a
\* cookie the jar does not hold), then converted in turn
from_cookies(cookies, uuid) ==
    LET decode(cookie) ==
            IF ~cookie.present THEN [raised |-> "TypeError"]
            ELSE json_decode(unquote(cookie.raw))
        decoded == << decode(cookies.birthday),
                      decode(cookies.terms_of_service_adult),
                      decode(cookies.privacy_policy) >>
        undecoded == {k \in 1..3 : decoded[k].raised # "none"}
        pairs == [k \in 1..3 |-> from_cookie_dict(decoded[k])]
        unconverted == {k \in 1..3 : pairs[k].raised # "none"}
        first(failed) == CHOOSE k \in failed : \A j \in failed : k <= j
    IN  IF ~cookies.uwt.present
        THEN [cls |-> "ValueError"]
        ELSE IF undecoded # {}
        THEN [cls |-> decoded[first(undecoded)].raised]
        ELSE IF unconverted # {}
        THEN [cls |-> pairs[first(unconverted)].raised]
        ELSE [cls |-> "KMConfigWeb",
              f |-> [id |-> uuid, type |-> DEVICE_WEB, username |-> "",
                     email |-> "temp@kmkc.xyz", account_id |-> 0, device_id |-> 0,
                     uwt |-> unquote(cookies.uwt.raw),
                     birthday |-> pairs[1].kv, tos_adult |-> pairs[2].kv,
                     privacy |-> pairs[3].kv]]

\* The answers of the /account endpoint: refused, or the account it names
AccountResponses ==
    {[status |-> IF c = 0 THEN "success" ELSE "fail", response_code |-> c,
      error_message |-> IF c = 0 THEN "" ELSE "denied",
      account |-> [account_id |-> 7, user_id |-> u, nickname |-> "nick",
                   email |-> "n@kmkc.xyz"]]
        : c \in {0} \cup ErrorCodes, u \in {9, 10}}

\* kmkc_auth_session on a cookie file; confirm is the user's answer to "Do
\* you want to replace it?"
KmkcAuthSession(cookies, uuid, confirm) ==
    /\ last = Idle
    /\ ~store[<<"kmkc", uuid>>].exists
    /\ UNCHANGED wallet
    /\ \E order \in GlobOrders(store, "kmkc") :
       LET all_configs == km_get_all_config(store, order)
           new == from_cookies(cookies, uuid)
           early(raised) ==
               /\ last' = [op |-> "authweb", cookies |-> cookies,
                           store_before |-> store, raised |-> raised,
                           declined |-> FALSE, resp |-> NoResponse,
                           sent |-> << >>, writes |-> 0]
               /\ UNCHANGED <<config, store, saved>>
       IN  IF all_configs.raised # "none" THEN early(all_configs.raised)
           ELSE IF new.cls # "KMConfigWeb" THEN early(new.cls)
           ELSE \E resp \in AccountResponses :
                LET eff == request_effect(new, store, saved, EmptyJar)
                    made == make_response(resp)
                    confs == all_configs.configs
                    matches == {i \in 1..Len(confs) :
                                   /\ IsWeb(confs[i])
                                   /\ confs[i].f.account_id = resp.account.account_id
                                   /\ confs[i].f.device_id = resp.account.user_id}
                    declined == made.raised = "none" /\ matches # {} /\ ~confirm
                    old_config ==
                        confs[CHOOSE i \in matches : \A j \in matches : j <= i]
                    named ==
                        [eff.config EXCEPT
                            !.f.account_id = resp.account.account_id,
                            !.f.username = resp.account.nickname,
                            !.f.email = resp.account.email,
                            !.f.device_id = resp.account.user_id,
                            !.f.id = IF matches # {} THEN old_config.f.id ELSE @]
                    done == made.raised = "none" /\ ~declined
                IN  /\ config' = IF done THEN named ELSE eff.config
                    /\ store' = IF done THEN km_save_config(eff.store, named)
                                ELSE eff.store
                    /\ saved' = IF done
                                THEN [eff.saved EXCEPT ![<<"kmkc", named.f.id>>] = named]
                                ELSE eff.saved
                    /\ last' = [op |-> "authweb", cookies |-> cookies,
                                store_before |-> store, raised |-> made.raised,
                                declined |-> declined, resp |-> resp,
                                sent |-> << [method |-> "GET", path |-> "/account"] >>,
                                writes |-> IF done THEN eff.writes + 1 ELSE eff.writes]

\* The directory before the command: empty, or holding the session of an
\* earlier successful authweb
InitAuth ==
    /\ wallet = [free_point |-> 0, paid_point |-> 0]
    /\ config = [WebConfig("acc1") EXCEPT !.f.account_id = 7, !.f.device_id = 9,
                                          !.f.username = "nick",
                                          !.f.email = "n@kmkc.xyz"]
    /\ \/ store = EmptyStore /\ saved = NothingSaved
       \/ /\ store = km_save_config(EmptyStore, config)
          /\ saved = [NothingSaved EXCEPT ![<<"kmkc", config.f.id>>] = config]
    /\ last = Idle

NextAuth ==
    \/ \E cookies \in CookieJars, uuid \in AccountIds, confirm \in BOOLEAN :
            KmkcAuthSession(cookies, uuid, confirm)
    \/ Continue

SpecAuth == InitAuth /\ [][NextAuth]_vars

\* C22 (as claimed): when the authweb attempt fails with the backend refusing
\* the account request, or the user declines to replace an existing session,
\* the session files of the directory are those from before the attempt.
C22_FailedAuthKeepsFiles ==
    (last.op = "authweb" /\ (last.raised = "KMAPIError" \/ last.declined)) =>
        ExistingFiles(store, "kmkc") = ExistingFiles(last.store_before, "kmkc")

-----------------------------------------------------------------------------
(* cli/impl/kmkc: the purchase and download commands of a title.  A command *)
(* is modelled from the point where it holds the wallet, the ticket entry  *)
(* and the chapter list it fetched; every answer the backend gives after   *)
(* that is scripted.                                                       *)

MaxChapters == 2   \* most chapters of a title
MaxTickets == 1    \* most title tickets, and most premium tickets, owned

\* dto.py: EpisodeBadge
PURCHASEABLE == 1
PURCHASED == 3

\* EpisodeEntry.available
available(episode) == episode.badge # PURCHASEABLE

\* EpisodeEntry.ticketable
ticketable(episode) == episode.ticket_rental_enabled = 1

title_available_mut_unchecked(ticket_entry) == TRUE

\* TitleTicketListEntry: title is title_ticket_info.own_ticket_num, premium
\* is premium_ticket_info.own_ticket_num
title_available(ticket_entry) == ticket_entry.title > 0
premium_available(ticket_entry) == ticket_entry.premium > 0
subtract_title(ticket_entry) == [ticket_entry EXCEPT !.title = @ - 1]
subtract_premium(ticket_entry) == [ticket_entry EXCEPT !.premium = @ - 1]

\* The chapter lists of a title: episode 100 + i at place i, one point each
TitleChapters ==
    UNION {{[i \in 1..n |->
                [episode_id |-> 100 + i, point |-> 1, bonus_point |-> 0,
                 badge |-> kind[i][1], ticket_rental_enabled |-> kind[i][2]]]
            : kind \in [1..n -> {PURCHASEABLE, PURCHASED} \X {0, 1}]}
           : n \in 1..MaxChapters}

TicketEntries == [title : 0..MaxTickets, premium : 0..MaxTickets]

\* list.index: the first place of the value
list_index(list, value) ==
    CHOOSE k \in 1..Len(list) :
        list[k] = value /\ \A j \in 1..(k - 1) : list[j] # value

\* The sublists of a list, in list order: what console.select can return
RECURSIVE Selections(_)
Selections(list) ==
    IF list = << >> THEN {<< >>}
    ELSE LET rest == Selections(Tail(list))
         IN  rest \cup {<< Head(list) >> \o s : s \in rest}

\* [chapter for chapter in list if not chapter.available()]
RECURSIVE not_available(_)
not_available(list) ==
    IF list = << >> THEN << >>
    ELSE (IF ~available(Head(list)) THEN << Head(list) >> ELSE << >>)
         \o not_available(Tail(list))

\* kmkc_title_purchase: the loop over the selected chapter ids that sorts
\* them into ticket claims and point claims; `took` notes, for every ticket
\* taken, its kind and the count it was taken from
RECURSIVE purchase_precalc(_, _, _, _)
purchase_precalc(acc, chapters_info, selected_ch_ids, i) ==
    IF i > Len(selected_ch_ids) THEN acc
    ELSE
    LET ids_lists == [k \in 1..Len(chapters_info) |-> chapters_info[k].episode_id]
        episode == chapters_info[list_index(ids_lists, selected_ch_ids[i])]
        step ==
            IF available(episode) THEN acc
            ELSE IF ticketable(episode) /\ title_available(acc.ticket_entry)
            THEN [acc EXCEPT
                    !.ticket_entry = subtract_title(@),
                    !.ticket_claimant = Append(@, [episode |-> episode, ticket |-> "title"]),
                    !.took = Append(@, [ticket |-> "title", own |-> acc.ticket_entry.title])]
            ELSE IF ticketable(episode) /\ premium_available(acc.ticket_entry)
            THEN [acc EXCEPT
                    !.ticket_entry = subtract_premium(@),
                    !.ticket_claimant = Append(@, [episode |-> episode, ticket |-> "premium"]),
                    !.took = Append(@, [ticket |-> "premium", own |-> acc.ticket_entry.premium])]
            ELSE IF can_purchase(acc.wallet_copy, episode.point)
            THEN [acc EXCEPT
                    !.wallet_copy = add(subtract(@, episode.point), episode.bonus_point),
                    !.point_claimant = Append(@, episode)]
            ELSE acc
    IN  purchase_precalc(step, chapters_info, selected_ch_ids, i + 1)

\* kmkc_title_purchase.  ticket_ok tells whether the backend accepts the
\* ticket claims; the bulk claim's answer is drawn where it is sent
KmkcTitlePurchase(ticket_entry, all_chapters, selected, ticket_ok) ==
    /\ last = Idle
    /\ IsWeb(config)
    /\ LET chapters_info == not_available(all_chapters)
           selected_ch_ids == [k \in 1..Len(selected) |-> selected[k].episode_id]
           plan == purchase_precalc(
                      [ticket_entry |-> ticket_entry, wallet_copy |-> wallet,
                       ticket_claimant |-> << >>, point_claimant |-> << >>,
                       took |-> << >>],
                      chapters_info, selected_ch_ids, 1)
           total_chs == Len(plan.point_claimant) + Len(plan.ticket_claimant)
           ticket_sent ==
               [k \in 1..Len(plan.ticket_claimant) |->
                   [method |-> "POST", path |-> "/episode/rental/ticket",
                    data |-> [episode_id |-> plan.ticket_claimant[k].episode.episode_id,
                              ticket |-> plan.ticket_claimant[k].ticket]]]
           rec(sent, raised, writes) ==
               [op |-> "kmkc_title_purchase", before |-> wallet,
                tickets_before |-> ticket_entry, tickets |-> plan.ticket_entry,
                took |-> plan.took, chapters_info |-> chapters_info,
                selected |-> selected_ch_ids,
                ticket_claimant |-> plan.ticket_claimant,
                point_claimant |-> plan.point_claimant,
                ticket_ok |-> ticket_ok, raised |-> raised, sent |-> sent,
                writes |-> writes]
       IN  /\ selected \in Selections(chapters_info)
           /\ IF selected = << >> \/ total_chs = 0
              THEN /\ ticket_ok
                   /\ last' = rec(<< >>, "none", 0)
                   /\ UNCHANGED <<wallet, config, store, saved>>
              ELSE LET pre == bulk_precheck(wallet, plan.point_claimant)
                       eff == request_effect(config, store, saved, EmptyJar)
                   IN  /\ ~ticket_ok => plan.ticket_claimant # << >>
                       /\ config' = eff.config
                       /\ store' = eff.store
                       /\ saved' = eff.saved
                       /\ IF ~pre.ok
                          THEN /\ wallet' = pre.wallet
                               /\ last' = rec(ticket_sent, "KMNotEnoughPointError",
                                              Len(ticket_sent))
                          ELSE \E ok \in BOOLEAN :
                               LET resp ==
                                     IF ok
                                     THEN [status |-> "success", response_code |-> 0,
                                           error_message |-> "", account_point |-> 0,
                                           paid_point |-> pre.paid_point,
                                           earned_point_back |-> pre.bonus_point]
                                     ELSE CHOOSE r \in FailedResponses : r.status = "fail"
                                   made == make_response(resp)
                                   bulk_sent ==
                                     << [method |-> "POST", path |-> "/episode/paid/bulk",
                                         data |-> [episode_id_list |->
                                                     [k \in 1..Len(plan.point_claimant) |->
                                                        plan.point_claimant[k].episode_id],
                                                   paid_point |-> pre.paid_point,
                                                   point_back |-> pre.bonus_point]] >>
                               IN  /\ wallet' =
                                        IF made.raised = "none"
                                        THEN add(subtract(pre.wallet, made.parsed.paid_point),
                                                 made.parsed.earned_point_back)
                                        ELSE pre.wallet
                                   /\ last' = rec(ticket_sent \o bulk_sent, made.raised,
                                                  Len(ticket_sent) + 1)

\* The purchase of one chapter in kmkc_title_download and in
\* kmkc_title_auto_download: the ticket claim (premium ticket first, then
\* title ticket; left out under --no-ticket), and after it, with no
\* `continue` in between, the point claim.  ticket_ok and point_ok tell
\* whether the backend accepts the claim; `claims` notes every claim call
purchase_step(acc, chapter, answer, no_ticket) ==
    LET kind == IF premium_available(acc.ticket_entry) THEN "premium"
                ELSE IF title_available(acc.ticket_entry) THEN "title"
                ELSE "none"
        with_ticket ==
            IF ~ticketable(chapter) \/ no_ticket \/ kind = "none" THEN acc
            ELSE [acc EXCEPT
                    !.ticket_entry = IF kind = "premium" THEN subtract_premium(@)
                                     ELSE subtract_title(@),
                    !.took = Append(@, [ticket |-> kind,
                                        own |-> IF kind = "premium"
                                                THEN acc.ticket_entry.premium
                                                ELSE acc.ticket_entry.title]),
                    !.sent = Append(@, [method |-> "POST",
                                        path |-> "/episode/rental/ticket",
                                        data |-> [episode_id |-> chapter.episode_id,
                                                  ticket |-> kind]]),
                    !.claims = Append(@, [episode_id |-> chapter.episode_id,
                                          by |-> "ticket",
                                          raised |-> IF answer.ticket_ok THEN "none"
                                                     ELSE "KMAPIError"]),
                    !.actual_chapters = IF answer.ticket_ok THEN Append(@, chapter)
                                        ELSE @]
        with_point ==
            IF ~can_purchase(with_ticket.wallet_copy, chapter.point)
            THEN with_ticket
            ELSE IF ~can_purchase(with_ticket.user_wallet, chapter.point)
            THEN [with_ticket EXCEPT
                    !.claims = Append(@, [episode_id |-> chapter.episode_id,
                                          by |-> "point",
                                          raised |-> "KMNotEnoughPointError"])]
            ELSE [with_ticket EXCEPT
                    !.sent = Append(@, [method |-> "POST", path |-> "/episode/paid",
                                        data |-> [episode_id |-> chapter.episode_id,
                                                  check_point |-> chapter.point]]),
                    !.claims = Append(@, [episode_id |-> chapter.episode_id,
                                          by |-> "point",
                                          raised |-> IF answer.point_ok THEN "none"
                                                     ELSE "KMAPIError"]),
                    !.user_wallet =
                        IF answer.point_ok
                        THEN add(subtract(@, chapter.point), chapter.bonus_point)
                        ELSE @,
                    !.wallet_copy =
                        IF answer.point_ok
                        THEN add(subtract(@, chapter.point), chapter.bonus_point)
                        ELSE @,
                    !.actual_chapters = IF answer.point_ok THEN Append(@, chapter)
                                        ELSE @]
    IN  with_point

\* kmkc_title_download: the loop over the chapter ids that buys what is not
\* yet available.  should_purchase is auto_purchase or the user's answer;
\* script[i] holds the answers given for chapter_ids[i]
RECURSIVE download_precalc(_, _, _, _, _)
download_precalc(acc, chapters_info, chapter_ids, script, i) ==
    IF i > Len(chapter_ids) THEN acc
    ELSE
    LET answer == script[i]
        ids_lists == [k \in 1..Len(chapters_info) |-> chapters_info[k].episode_id]
        chapter == chapters_info[list_index(ids_lists, chapter_ids[i])]
        step ==
            IF available(chapter)
            THEN [acc EXCEPT !.actual_chapters = Append(@, chapter)]
            ELSE IF ~answer.should_purchase THEN acc
            ELSE purchase_step(acc, chapter, answer, FALSE)
    IN  download_precalc(step, chapters_info, chapter_ids, script, i + 1)

\* click.IntRange option not given
NoOption == 0

\* kmkc_title_auto_download: the loop over every chapter of the title.  A
\* chapter below start_from is passed over, the first one above end_until
\* ends the loop (acc.stopped), --no-purchase buys nothing; there is no
\* prompt.  script[i] holds the answers given for chapters_info[i]
RECURSIVE auto_precalc(_, _, _, _, _)
auto_precalc(acc, chapters_info, options, script, i) ==
    IF i > Len(chapters_info) \/ acc.stopped THEN acc
    ELSE
    LET chapter == chapters_info[i]
        step ==
            IF available(chapter)
            THEN [acc EXCEPT !.actual_chapters = Append(@, chapter)]
            ELSE IF options.start_from # NoOption
                    /\ chapter.episode_id < options.start_from
            THEN acc
            ELSE IF options.end_until # NoOption
                    /\ chapter.episode_id > options.end_until
            THEN [acc EXCEPT !.stopped = TRUE]
            ELSE IF options.opt_no_purchase THEN acc
            ELSE purchase_step(acc, chapter, script[i], options.opt_no_ticket)
    IN  auto_precalc(step, chapters_info, options, script, i + 1)

\* What the user and the backend answer for one chapter of a download run:
\* the answer to the purchase prompt (auto_purchase counts as yes), whether
\* the backend accepts the ticket claim, the point claim (for musq: the
\* purchase request) and the viewer request of that chapter
Answers ==
    [should_purchase : BOOLEAN, ticket_ok : BOOLEAN, point_ok : BOOLEAN,
     viewer_ok : BOOLEAN]

\* The scripts of a run: one answer per chapter id given.  needs_purchase[k]
\* tells whether chapter k has to be bought; a chapter that needs no
\* purchase is only asked for its viewer, and a declined purchase asks the
\* backend nothing
RECURSIVE DownloadScripts(_)
DownloadScripts(needs_purchase) ==
    IF needs_purchase = << >> THEN {<< >>}
    ELSE LET here == IF Head(needs_purchase)
                     THEN {a \in Answers :
                             ~a.should_purchase
                                => (a.ticket_ok /\ a.point_ok /\ a.viewer_ok)}
                     ELSE {a \in Answers :
                             a.should_purchase /\ a.ticket_ok /\ a.point_ok}
         IN  {<< a >> \o rest : a \in here,
                                rest \in DownloadScripts(Tail(needs_purchase))}

\* The second half of both download commands: the loop over actual_chapters,
\* in which a rejected viewer request is logged and the loop goes on with
\* the next chapter, and what the requests of the run leave behind
KmkcDownloadChapters(op, ticket_entry, chapters_info, chapter_ids, options, script, plan) ==
    LET actual == plan.actual_chapters
        in_actual(id) == \E k \in 1..Len(actual) : actual[k].episode_id = id
        claimed(id, by) ==
            \E k \in 1..Len(plan.claims) :
                /\ plan.claims[k].episode_id = id
                /\ plan.claims[k].by = by
                /\ plan.claims[k].raised # "KMNotEnoughPointError"
        viewer_sent ==
            [k \in 1..Len(actual) |->
                [method |-> "GET", path |-> "/web/episode/viewer",
                 data |-> [episode_id |-> actual[k].episode_id]]]
        sent == plan.sent \o viewer_sent
        eff == request_effect(config, store, saved, EmptyJar)
    IN  /\ Len(script) = Len(chapter_ids)
        \* a refusal is an answer to a request that was made
        /\ \A k \in 1..Len(script) :
              /\ ~script[k].ticket_ok => claimed(chapter_ids[k], "ticket")
              /\ ~script[k].point_ok => claimed(chapter_ids[k], "point")
              /\ ~script[k].viewer_ok => in_actual(chapter_ids[k])
        /\ wallet' = plan.user_wallet
        /\ config' = IF sent = << >> THEN config ELSE eff.config
        /\ store' = IF sent = << >> THEN store ELSE eff.store
        /\ saved' = IF sent = << >> THEN saved ELSE eff.saved
        /\ last' = [op |-> op, before |-> wallet,
                    tickets_before |-> ticket_entry,
                    tickets |-> plan.ticket_entry, took |-> plan.took,
                    chapters_info |-> chapters_info, selected |-> chapter_ids,
                    options |-> options,
                    script |-> script, claims |-> plan.claims,
                    actual_chapters |-> actual,
                    attempted |-> [k \in 1..Len(actual) |-> actual[k].episode_id],
                    rejected |-> {chapter_ids[k] : k \in
                                    {j \in 1..Len(script) : ~script[j].viewer_ok}},
                    raised |-> "none", aborted |-> FALSE,
                    sent |-> sent, writes |-> Len(sent)]

\* The options of `tosho km download`: none of autodownload's
NoOptions ==
    [opt_no_ticket |-> FALSE, opt_no_purchase |-> FALSE,
     start_from |-> NoOption, end_until |-> NoOption]

\* kmkc_title_download with the chapter ids given
KmkcTitleDownload(ticket_entry, chapters_info, chapters, script) ==
    /\ last = Idle
    /\ IsWeb(config)
    /\ chapters \in Selections(chapters_info)
    /\ chapters # << >>
    /\ LET chapter_ids == [k \in 1..Len(chapters) |-> chapters[k].episode_id]
           plan == download_precalc(
                      [ticket_entry |-> ticket_entry, wallet_copy |-> wallet,
                       user_wallet |-> wallet, actual_chapters |-> << >>,
                       took |-> << >>, sent |-> << >>, claims |-> << >>],
                      chapters_info, chapter_ids, script, 1)
       IN  KmkcDownloadChapters("kmkc_title_download", ticket_entry, chapters_info,
                                chapter_ids, NoOptions, script, plan)

\* The option sets of `tosho km autodownload` explored
AutoOptions ==
    {NoOptions,
     [NoOptions EXCEPT !.opt_no_ticket = TRUE],
     [NoOptions EXCEPT !.opt_no_purchase = TRUE],
     [NoOptions EXCEPT !.start_from = 102],
     [NoOptions EXCEPT !.end_until = 100],
     [NoOptions EXCEPT !.end_until = 101],
     [NoOptions EXCEPT !.start_from = 102, !.end_until = 101]}

\* kmkc_title_auto_download.  start_from > end_until raises
\* click.BadParameter before anything is fetched
KmkcTitleAutoDownload(ticket_entry, chapters_info, options, script) ==
    /\ last = Idle
    /\ IsWeb(config)
    /\ LET chapter_ids == [k \in 1..Len(chapters_info) |-> chapters_info[k].episode_id]
           plan == auto_precalc(
                      [ticket_entry |-> ticket_entry, wallet_copy |-> wallet,
                       user_wallet |-> wallet, actual_chapters |-> << >>,
                       took |-> << >>, sent |-> << >>, claims |-> << >>,
                       stopped |-> FALSE],
                      chapters_info, options, script, 1)
           bad_parameter ==
               /\ options.start_from # NoOption
               /\ options.end_until # NoOption
               /\ options.start_from > options.end_until
       IN  \* there is no prompt
           /\ \A k \in 1..Len(script) : script[k].should_purchase
           /\ IF bad_parameter
              THEN /\ \A k \in 1..Len(script) :
                        script[k].ticket_ok /\ script[k].point_ok /\ script[k].viewer_ok
                   /\ last' = [op |-> "kmkc_title_auto_download", before |-> wallet,
                               tickets_before |-> ticket_entry,
                               tickets |-> ticket_entry, took |-> << >>,
                               chapters_info |-> chapters_info,
                               selected |-> chapter_ids, options |-> options,
                               script |-> script, claims |-> << >>,
                               actual_chapters |-> << >>, attempted |-> << >>,
                               rejected |-> {}, raised |-> "BadParameter",
                               aborted |-> TRUE, sent |-> << >>, writes |-> 0]
                   /\ UNCHANGED <<wallet, config, store, saved>>
              ELSE KmkcDownloadChapters("kmkc_title_auto_download", ticket_entry,
                                        chapters_info, chapter_ids, options, script, plan)

-----------------------------------------------------------------------------
(* cli/impl/musq: the purchase and download commands of a title, modelled   *)
(* from the point where get_manga has returned the purse and the chapters. *)

\* The chapter lists of a title: chapter 200 + i at place i
MangaChapters ==
    UNION {{[i \in 1..n |->
                [id |-> 200 + i, price |-> kind[i][1], consumption |-> kind[i][2]]]
            : kind \in [1..n -> {<<0, ANY_ITEMS>>, <<2, ANY_ITEMS>>, <<2, PAID_ONLY>>}]}
           : n \in 1..MaxChapters}

\* The purses get_manga reports
CoinPurses == [free : {0, 2}, event : {0, 2}, paid : {0, 2}]

\* What the backend answers to a viewer request: it accepts it ("ok"), it
\* replies with an HTTP error status and raise_for_status raises HTTPError,
\* or it replies with a status other than SUCCESS and get_chapter_images
\* raises RuntimeError
ViewerOutcomes == {"ok", "HTTPError", "RuntimeError"}

\* The two ways a viewer request fails
ViewerRejections == ViewerOutcomes \ {"ok"}

\* What reading `.blocks` of the ChapterViewer that get_chapter_images
\* returns raises: the class has the fields status, user_point, images,
\* next_chapter, previous_chapter, page_start and is_comment_enabled, and no
\* field blocks
viewer_blocks == "AttributeError"

\* musq_manga_purchase, the branch of a chapter calculate_coin finds not
\* possible: the failure is noted and the loop goes on with the next chapter
purchase_skip(acc, chapter) ==
    [acc EXCEPT
        !.failed_chapters = Append(@, [id |-> chapter.id,
                                       why |-> "Insufficient point balance"]),
        !.log = Append(@, [id |-> chapter.id, price |-> chapter.price,
                           before |-> acc.point_bal, after |-> acc.point_bal,
                           outcome |-> "skipped", sent |-> << >>])]

\* musq_manga_purchase: the loop over the selected chapter ids; outcome
\* gives the backend's answer per chapter id.  `log` notes, for every chapter
\* the loop handled, the purse before and after it.  The purse is debited
\* before the request; a rejected request raises out of the command, and so
\* does an accepted one, at `if not img_chapter.blocks`, before the chapter
\* is counted as claimed
RECURSIVE purchase_loop(_, _, _, _, _)
purchase_loop(acc, chapters, selected_ch_ids, outcome, idx) ==
    IF idx > Len(selected_ch_ids) \/ acc.raised # "none" THEN acc
    ELSE
    LET ids_lists == [k \in 1..Len(chapters) |-> chapters[k].id]
        chapter == chapters[list_index(ids_lists, selected_ch_ids[idx])]
        consume == calculate_coin(acc.point_bal, chapter)
        entry(after, what, sent) ==
            [id |-> chapter.id, price |-> chapter.price, before |-> acc.point_bal,
             after |-> after, outcome |-> what, sent |-> sent]
        step ==
            IF consume.raised # "none"
            THEN [acc EXCEPT !.raised = consume.raised]
            ELSE IF ~is_possible(consume.coin)
            THEN purchase_skip(acc, chapter)
            ELSE
            LET deducted == [free |-> acc.point_bal.free - consume.coin.free,
                             event |-> acc.point_bal.event - consume.coin.event,
                             paid |-> acc.point_bal.paid - consume.coin.paid]
                what == outcome[chapter.id]
                sent == << [method |-> "POST", path |-> "/manga/viewer",
                            data |-> [chapter_id |-> chapter.id,
                                      free_point |-> consume.coin.free,
                                      event_point |-> consume.coin.event,
                                      paid_point |-> consume.coin.paid]] >>
            IN  [acc EXCEPT
                    !.point_bal = deducted,
                    !.sent = @ \o sent,
                    !.raised = IF what = "ok" THEN viewer_blocks ELSE what,
                    !.log = Append(@, entry(deducted, what, sent))]
    IN  purchase_loop(step, chapters, selected_ch_ids, outcome, idx + 1)

MusqMangaPurchase(point_bal, chapters, selected, outcome) ==
    /\ last = Idle
    /\ LET selected_ch_ids == [k \in 1..Len(selected) |-> selected[k].id]
           run == purchase_loop(
                     [point_bal |-> point_bal, claimed_total |-> 0,
                      failed_chapters |-> << >>, sent |-> << >>, log |-> << >>,
                      raised |-> "none"],
                     chapters, selected_ch_ids, outcome, 1)
       IN  /\ selected \in Selections(chapters)
           /\ selected # << >>
           /\ \A id \in DOMAIN outcome :
                 (\A k \in 1..Len(run.sent) : run.sent[k].data.chapter_id # id)
                    => outcome[id] = "ok"
           /\ last' = [op |-> "musq_manga_purchase", before |-> point_bal,
                       chapters |-> chapters, selected |-> selected_ch_ids,
                       point_bal |-> run.point_bal,
                       claimed_total |-> run.claimed_total,
                       failed_chapters |-> run.failed_chapters, log |-> run.log,
                       raised |-> run.raised, sent |-> run.sent, writes |-> 0]
    /\ UNCHANGED <<wallet, config, store, saved>>

\* musq_manga_download: the loop over the chapter ids that buys what is not
\* free.  script[i] holds the answers given for chapter_ids[i].  A purchase
\* request the backend rejects raises RuntimeError out of the command; one it
\* accepts raises at `if not _t.blocks`, before the chapter is appended and
\* before the purse is debited
RECURSIVE mu_download_precalc(_, _, _, _, _, _)
mu_download_precalc(acc, manga_chapters, chapter_ids, script, rejection, i) ==
    IF i > Len(chapter_ids) \/ acc.raised # "none" THEN acc
    ELSE
    LET answer == script[i]
        ids_lists == [k \in 1..Len(manga_chapters) |-> manga_chapters[k].id]
        chapter == manga_chapters[list_index(ids_lists, chapter_ids[i])]
        consume == calculate_coin(acc.coin_purse, chapter)
        entry(what, sent) ==
            [id |-> chapter.id, price |-> chapter.price, before |-> acc.coin_purse,
             after |-> acc.coin_purse, outcome |-> what, sent |-> sent]
        step ==
            IF chapter_is_free(chapter)
            THEN [acc EXCEPT !.actual_chapters = Append(@, chapter)]
            ELSE IF consume.raised # "none"
            THEN [acc EXCEPT !.raised = consume.raised]
            ELSE IF ~is_possible(consume.coin)
            THEN [acc EXCEPT !.log = Append(@, entry("skipped", << >>))]
            ELSE IF coin_is_free(consume.coin)
            THEN [acc EXCEPT !.actual_chapters = Append(@, chapter)]
            ELSE IF ~answer.should_purchase THEN acc
            ELSE
            LET sent == << [method |-> "POST", path |-> "/manga/viewer",
                            data |-> [chapter_id |-> chapter.id,
                                      free_point |-> consume.coin.free,
                                      event_point |-> consume.coin.event,
                                      paid_point |-> consume.coin.paid]] >>
                what == IF answer.point_ok THEN "ok" ELSE rejection
            IN  [acc EXCEPT
                    !.sent = @ \o sent,
                    !.raised = IF answer.point_ok THEN viewer_blocks
                               ELSE rejection,
                    !.log = Append(@, entry(what, sent))]
    IN  mu_download_precalc(step, manga_chapters, chapter_ids, script,
                            rejection, i + 1)

\* musq_manga_download with the chapter ids given.  The loop over
\* actual_chapters calls get_chapter_images with no handler around it and
\* then reads `.blocks`: the first chapter's request ends the command, with
\* RuntimeError when the backend rejects it and at `if not ch_images.blocks`
\* when it accepts it
MusqMangaDownload(coin_purse, manga_chapters, chapters, script, rejection) ==
    /\ last = Idle
    /\ LET chapter_ids == [k \in 1..Len(chapters) |-> chapters[k].id]
           plan == mu_download_precalc(
                      [coin_purse |-> coin_purse, actual_chapters |-> << >>,
                       sent |-> << >>, log |-> << >>, raised |-> "none"],
                      manga_chapters, chapter_ids, script, rejection, 1)
           actual == plan.actual_chapters
           downloading == plan.raised = "none" /\ actual # << >>
           reached == IF downloading THEN 1 ELSE 0
           first_ok == script[list_index(chapter_ids, actual[1].id)].viewer_ok
           viewer_sent ==
               [k \in 1..reached |->
                   [method |-> "POST", path |-> "/manga/viewer",
                    data |-> [chapter_id |-> actual[k].id, free_point |-> 0,
                              event_point |-> 0, paid_point |-> 0]]]
           asked(id, what) ==
               \E k \in 1..Len(plan.log) :
                   plan.log[k].id = id /\ plan.log[k].outcome = what
       IN  /\ chapters \in Selections(manga_chapters)
           /\ chapters # << >>
           /\ Len(script) = Len(chapter_ids)
           \* a refusal is an answer to a question or request that was made
           /\ \A k \in 1..Len(script) :
                 /\ script[k].ticket_ok
                 /\ ~script[k].point_ok => asked(chapter_ids[k], rejection)
                 /\ ~script[k].viewer_ok
                      => (downloading /\ actual[1].id = chapter_ids[k])
                 /\ ~script[k].should_purchase
                      => (\A j \in 1..Len(plan.log) : plan.log[j].id # chapter_ids[k])
           \* the kind of failure is that of a request that failed
           /\ rejection # "RuntimeError"
                => {k \in 1..Len(script) :
                        ~script[k].point_ok \/ ~script[k].viewer_ok} # {}
           /\ last' = [op |-> "musq_manga_download", before |-> coin_purse,
                       rejection |-> rejection,
                       chapters |-> manga_chapters, selected |-> chapter_ids,
                       script |-> script, point_bal |-> plan.coin_purse,
                       log |-> plan.log, actual_chapters |-> actual,
                       attempted |-> [k \in 1..reached |-> actual[k].id],
                       rejected |-> IF downloading /\ ~first_ok
                                    THEN {actual[1].id} ELSE {},
                       raised |-> IF plan.raised # "none" THEN plan.raised
                                  ELSE IF ~downloading THEN "none"
                                  ELSE IF first_ok THEN viewer_blocks
                                  ELSE rejection,
                       aborted |-> plan.raised # "none" \/ downloading,
                       sent |-> plan.sent \o viewer_sent, writes |-> 0]
    /\ UNCHANGED <<wallet, config, store, saved>>

\* The option sets of `tosho mu autodownload` explored
MuAutoOptions ==
    LET none == [opt_force_free |-> FALSE, opt_no_purchase |-> FALSE,
                 opt_no_use_xp |-> FALSE, start_from |-> NoOption,
                 end_until |-> NoOption]
    IN  {none,
         [none EXCEPT !.opt_force_free = TRUE],
         [none EXCEPT !.opt_no_purchase = TRUE],
         [none EXCEPT !.opt_no_use_xp = TRUE],
         [none EXCEPT !.start_from = 202],
         [none EXCEPT !.end_until = 201],
         [none EXCEPT !.start_from = 202, !.end_until = 201]}

\* musq_manga_auto_download: the purse the command works with, after
\* --force-free, --no-purchase and --no-xp emptied their tiers
auto_coin_purse(coin_purse, options) ==
    LET force_free == IF options.opt_force_free
                      THEN [coin_purse EXCEPT !.paid = 0, !.event = 0]
                      ELSE coin_purse
        no_purchase == IF options.opt_no_purchase
                       THEN [force_free EXCEPT !.paid = 0, !.event = 0, !.free = 0]
                       ELSE force_free
    IN  IF options.opt_no_use_xp THEN [no_purchase EXCEPT !.event = 0]
        ELSE no_purchase

\* musq_manga_auto_download: the loop that collects the chapters from
\* start_from up to end_until and calculates their coins; the first chapter
\* above end_until ends it (acc.stopped)
RECURSIVE auto_consume_chapters(_, _, _, _)
auto_consume_chapters(acc, manga_chapters, options, i) ==
    IF i > Len(manga_chapters) \/ acc.stopped \/ acc.raised # "none" THEN acc
    ELSE
    LET chapter == manga_chapters[i]
        consume == calculate_coin(acc.coin_purse, chapter)
        step ==
            IF options.start_from # NoOption /\ chapter.id < options.start_from
            THEN acc
            ELSE IF options.end_until # NoOption /\ chapter.id > options.end_until
            THEN [acc EXCEPT !.stopped = TRUE]
            ELSE IF consume.raised # "none"
            THEN [acc EXCEPT !.raised = consume.raised]
            ELSE [acc EXCEPT !.consume_chapters = Append(@, chapter)]
    IN  auto_consume_chapters(step, manga_chapters, options, i + 1)

\* musq_manga_auto_download: the loop over the collected chapters.  A
\* chapter whose directory exists and one the purse cannot pay are passed
\* over; for the others the purse is debited and then the viewer request is
\* made, with no handler around it: a rejected request raises out of the
\* command, and so does an accepted one, at `if not ch_images.blocks`
RECURSIVE auto_download_loop(_, _, _, _, _)
auto_download_loop(acc, consume_chapters, downloaded, outcome, idx) ==
    IF idx > Len(consume_chapters) \/ acc.raised # "none" THEN acc
    ELSE
    LET chapter == consume_chapters[idx]
        consume == calculate_coin(acc.coin_purse, chapter)
        entry(after, what, sent) ==
            [id |-> chapter.id, price |-> chapter.price, before |-> acc.coin_purse,
             after |-> after, outcome |-> what, sent |-> sent]
        step ==
            IF chapter.id \in downloaded
            THEN [acc EXCEPT !.log = Append(@, entry(acc.coin_purse, "exists", << >>))]
            ELSE IF consume.raised # "none"
            THEN [acc EXCEPT !.raised = consume.raised]
            ELSE IF ~is_possible(consume.coin)
            THEN [acc EXCEPT !.log = Append(@, entry(acc.coin_purse, "skipped", << >>))]
            ELSE
            LET deducted == [free |-> acc.coin_purse.free - consume.coin.free,
                             event |-> acc.coin_purse.event - consume.coin.event,
                             paid |-> acc.coin_purse.paid - consume.coin.paid]
                what == outcome[chapter.id]
                sent == << [method |-> "POST", path |-> "/manga/viewer",
                            data |-> [chapter_id |-> chapter.id,
                                      free_point |-> consume.coin.free,
                                      event_point |-> consume.coin.event,
                                      paid_point |-> consume.coin.paid]] >>
            IN  [acc EXCEPT
                    !.coin_purse = deducted,
                    !.sent = @ \o sent,
                    !.raised = IF what = "ok" THEN viewer_blocks ELSE what,
                    !.log = Append(@, entry(deducted, what, sent))]
    IN  auto_download_loop(step, consume_chapters, downloaded, outcome, idx + 1)

\* musq_manga_auto_download; downloaded holds the ids of the chapters whose
\* directory exists.  start_from > end_until raises click.BadParameter before
\* anything is fetched
MusqMangaAutoDownload(coin_purse, manga_chapters, options, downloaded, outcome) ==
    /\ last = Idle
    /\ LET bad_parameter ==
               /\ options.start_from # NoOption
               /\ options.end_until # NoOption
               /\ options.start_from > options.end_until
           purse == auto_coin_purse(coin_purse, options)
           precalc == auto_consume_chapters(
                         [coin_purse |-> purse, consume_chapters |-> << >>,
                          stopped |-> FALSE, raised |-> "none"],
                         manga_chapters, options, 1)
           run == IF bad_parameter
                  THEN [coin_purse |-> coin_purse, sent |-> << >>, log |-> << >>,
                        raised |-> "BadParameter"]
                  ELSE auto_download_loop(
                          [coin_purse |-> purse, sent |-> << >>, log |-> << >>,
                           raised |-> precalc.raised],
                          precalc.consume_chapters, downloaded, outcome, 1)
           requested == {run.sent[k].data.chapter_id : k \in 1..Len(run.sent)}
       IN  \* an answer is the answer to a request that was made
           /\ \A id \in DOMAIN outcome : id \notin requested => outcome[id] = "ok"
           /\ last' = [op |-> "musq_manga_auto_download", before |-> coin_purse,
                       chapters |-> manga_chapters, options |-> options,
                       downloaded |-> downloaded,
                       selected |-> IF bad_parameter THEN << >>
                                    ELSE [k \in 1..Len(precalc.consume_chapters) |->
                                            precalc.consume_chapters[k].id],
                       point_bal |-> run.coin_purse, log |-> run.log,
                       attempted |-> [k \in 1..Len(run.sent) |->
                                        run.sent[k].data.chapter_id],
                       rejected |-> {id \in requested : outcome[id] # "ok"},
                       raised |-> run.raised, aborted |-> run.raised # "none",
                       sent |-> run.sent, writes |-> 0]
    /\ UNCHANGED <<wallet, config, store, saved>>

\* The commands of both sources, run one after another on a web session
InitCli ==
    /\ wallet \in [free_point : {0}, paid_point : {0, 1}]
    /\ config = WebConfig("acc1")
    /\ store = km_save_config(EmptyStore, config)
    /\ saved = [NothingSaved EXCEPT ![<<"kmkc", config.f.id>>] = config]
    /\ last = Idle

\* `tosho km purchase`: the title's chapters, the tickets owned and the
\* selection made in the prompt
RunKmkcTitlePurchase ==
    /\ last = Idle
    /\ \E ticket_entry \in TicketEntries, all_chapters \in TitleChapters :
         \E selected \in Selections(all_chapters), ticket_ok \in BOOLEAN :
            KmkcTitlePurchase(ticket_entry, all_chapters, selected, ticket_ok)

\* `tosho km download`
RunKmkcTitleDownload ==
    /\ last = Idle
    /\ \E ticket_entry \in TicketEntries, chapters_info \in TitleChapters :
         \E chapters \in Selections(chapters_info) :
            \E script \in DownloadScripts([k \in 1..Len(chapters) |->
                                              ~available(chapters[k])]) :
            KmkcTitleDownload(ticket_entry, chapters_info, chapters, script)

\* `tosho km autodownload`: the answers range over the chapters the options
\* let the loop buy
RunKmkcTitleAutoDownload ==
    /\ last = Idle
    /\ \E ticket_entry \in TicketEntries, chapters_info \in TitleChapters,
          options \in AutoOptions :
         LET id(k) == chapters_info[k].episode_id
             buys(k) ==
                 /\ ~available(chapters_info[k])
                 /\ ~options.opt_no_purchase
                 /\ options.start_from # NoOption => id(k) >= options.start_from
                 /\ options.end_until # NoOption => id(k) <= options.end_until
         IN  \E script \in DownloadScripts([k \in 1..Len(chapters_info) |-> buys(k)]) :
                KmkcTitleAutoDownload(ticket_entry, chapters_info, options, script)

\* `tosho mu purchase`
RunMusqMangaPurchase ==
    /\ last = Idle
    /\ \E point_bal \in CoinPurses, chapters \in MangaChapters :
         \E selected \in Selections(chapters),
            outcome \in [{chapters[k].id : k \in 1..Len(chapters)} -> ViewerOutcomes] :
            MusqMangaPurchase(point_bal, chapters, selected, outcome)

\* `tosho mu download`
RunMusqMangaDownload ==
    /\ last = Idle
    /\ \E coin_purse \in CoinPurses, manga_chapters \in MangaChapters :
         \E chapters \in Selections(manga_chapters) :
            \E script \in DownloadScripts([k \in 1..Len(chapters) |->
                                              ~chapter_is_free(chapters[k])]) :
              \E rejection \in ViewerRejections :
                MusqMangaDownload(coin_purse, manga_chapters, chapters, script,
                                  rejection)

\* `tosho mu autodownload`
RunMusqMangaAutoDownload ==
    /\ last = Idle
    /\ \E coin_purse \in CoinPurses, manga_chapters \in MangaChapters,
          options \in MuAutoOptions :
         LET ids == {manga_chapters[k].id : k \in 1..Len(manga_chapters)}
         IN  \E downloaded \in {{}} \cup {{id} : id \in ids},
                outcome \in [ids -> ViewerOutcomes] :
                MusqMangaAutoDownload(coin_purse, manga_chapters, options,
                                      downloaded, outcome)

NextCli ==
    \/ RunKmkcTitlePurchase
    \/ RunKmkcTitleDownload
    \/ RunKmkcTitleAutoDownload
    \/ RunMusqMangaPurchase
    \/ RunMusqMangaDownload
    \/ RunMusqMangaAutoDownload
    \/ Continue

SpecCli == InitCli /\ [][NextCli]_vars

-----------------------------------------------------------------------------
(* kmkc/imaging.py: the image descrambler.  An unsigned 32-bit value is its *)
(* bits, bit i of weight 2^i.                                              *)

MaxDim == 12       \* largest source image width / height explored

Bits == 0..31

\* uint32(x) = x & 0xFFFFFFFF for -2^31 <= x < 2^31: two's complement for x < 0
uint32(x) ==
    LET low == IF x >= 0 THEN x ELSE (x + 2147483647) + 1
    IN  [i \in Bits |-> IF i = 31 THEN (IF x < 0 THEN 1 ELSE 0)
                        ELSE (low \div (2 ^ i)) % 2]

\* uint32(t << n), uint32(t >> n), uint32(a ^ b) on bits
shl(t, n) == [i \in Bits |-> IF i >= n THEN t[i - n] ELSE 0]
shr(t, n) == [i \in Bits |-> IF i + n <= 31 THEN t[i + n] ELSE 0]
xor(a, b) == [i \in Bits |-> (a[i] + b[i]) % 2]

\* a 32-bit value as the numbers <<high 16 bits, low 16 bits>>
RECURSIVE bits_value(_, _, _)
bits_value(t, lo, n) ==
    IF n = 0 THEN 0 ELSE t[lo + n - 1] * (2 ^ (n - 1)) + bits_value(t, lo, n - 1)
u32_halves(t) == << bits_value(t, 16, 16), bits_value(t, 0, 16) >>

\* unsigned order of two 32-bit values given as <<high, low>>
u32_less(a, b) == a[1] < b[1] \/ (a[1] = b[1] /\ a[2] < b[2])

\* the 32-bit value of <<high 16 bits, low 16 bits>>
from_halves(h) ==
    [i \in Bits |-> IF i < 16 THEN (h[2] \div (2 ^ i)) % 2
                    ELSE (h[1] \div (2 ^ (i - 16))) % 2]

xorshift_mut_shift(tdata) ==
    LET t1 == xor(tdata, shl(tdata, 13))
        t2 == xor(t1, shr(t1, 13))
    IN  xor(t2, shl(t2, 5))

\* one turn of the loop of seed_generator
xorshift(tdata) ==
    LET t1 == xor(tdata, shl(tdata, 13))
        t2 == xor(t1, shr(t1, 17))
    IN  xor(t2, shl(t2, 5))

\* the first n values seed_generator(base_seed) yields, each as <<high, low>>
RECURSIVE seed_outputs(_, _)
seed_outputs(tdata, n) ==
    IF n = 0 THEN << >>
    ELSE LET nxt == u32_halves(xorshift(from_halves(tdata)))
         IN  << nxt >> \o seed_outputs(nxt, n - 1)
seed_generator(base_seed, n) == seed_outputs(u32_halves(uint32(base_seed)), n)

\* math.floor(a / b) for a >= 0, b > 0
floor_div(a, b) == a \div b

calc_block_size_mut_after_clamp(width, height, rectbox) ==
    LET cw == floor_div(width, 8) * 8
        ch == floor_div(height, 8) * 8
    IN  IF cw < rectbox \/ ch < rectbox
        THEN [none |-> TRUE]
        ELSE [none |-> FALSE, w |-> floor_div(cw, rectbox), h |-> floor_div(ch, rectbox)]

\* calc_block_size: (None, None), or the block width and height
calc_block_size(width, height, rectbox) ==
    IF width < rectbox \/ height < rectbox
    THEN [none |-> TRUE]
    ELSE LET n == 8
             cw == floor_div(width, n) * n
             ch == floor_div(height, n) * n
         IN  [none |-> FALSE, w |-> floor_div(cw, rectbox), h |-> floor_div(ch, rectbox)]

generate_copy_targets_mut_unsorted(rectbox, base_seed) ==
    [k \in 1..(rectbox * rectbox) |->
        [source |-> << (k - 1) % rectbox, floor_div(k - 1, rectbox) >>,
         dest |-> << (k - 1) % rectbox, floor_div(k - 1, rectbox) >>]]

\* generate_copy_targets: the (source tile, destination tile) pairs, in order
generate_copy_targets(rectbox, base_seed) ==
    LET n == rectbox * rectbox
        gen == seed_generator(base_seed, n)
        \* seed_arrays[i] = [gen[i + 1], i]; list.sort is stable
        before(i, j) == u32_less(gen[i + 1], gen[j + 1])
                        \/ (gen[i + 1] = gen[j + 1] /\ i < j)
        rank(i) == Cardinality({j \in 0..(n - 1) : before(j, i)})
        index_only == [k \in 1..n |-> CHOOSE i \in 0..(n - 1) : rank(i) = k - 1]
    IN  [k \in 1..n |->
            LET idx == k - 1
                idx_seed == index_only[k]
            IN  [source |-> << idx_seed % rectbox, floor_div(idx_seed, rectbox) >>,
                 dest |-> << idx % rectbox, floor_div(idx, rectbox) >>]]

descramble_target_mut_swapped(width, height, block_div, scramble_seed) ==
    LET block == calc_block_size(width, height, block_div)
    IN  IF block.none
        THEN [raised |-> "ValueError", why |-> "Image is too small"]
        ELSE LET targets == generate_copy_targets(block_div, scramble_seed)
             IN  [raised |-> "none",
                  canvas |-> << block.w * block_div, block.h * block_div >>,
                  pastes |->
                    [k \in 1..Len(targets) |->
                        LET source_x == targets[k].source[1] * block.w
                            source_y == targets[k].source[2] * block.h
                            dest_x == targets[k].dest[1] * block.h
                            dest_y == targets[k].dest[2] * block.w
                        IN  [crop |-> << source_x, source_y,
                                         source_x + block.w, source_y + block.h >>,
                             box |-> << dest_x, dest_y,
                                        dest_x + block.w, dest_y + block.h >>]]]

\* descramble_target on a source image of the given size: ValueError, or the
\* canvas size and the rectangles cropped from the source and pasted
descramble_target(width, height, block_div, scramble_seed) ==
    LET block == calc_block_size(width, height, block_div)
    IN  IF block.none
        THEN [raised |-> "ValueError", why |-> "Image is too small"]
        ELSE LET targets == generate_copy_targets(block_div, scramble_seed)
             IN  [raised |-> "none",
                  canvas |-> << block.w * block_div, block.h * block_div >>,
                  pastes |->
                    [k \in 1..Len(targets) |->
                        LET source_x == targets[k].source[1] * block.w
                            source_y == targets[k].source[2] * block.h
                            dest_x == targets[k].dest[1] * block.w
                            dest_y == targets[k].dest[2] * block.h
                        IN  [crop |-> << source_x, source_y,
                                         source_x + block.w, source_y + block.h >>,
                             box |-> << dest_x, dest_y,
                                        dest_x + block.w, dest_y + block.h >>]]]

BlockDivs == {2, 4}
ScrambleSeeds == {749191485, 1, -69420}

DescrambleTarget(width, height, block_div, scramble_seed) ==
    /\ last = Idle
    /\ last' = [op |-> "descramble_target", width |-> width, height |-> height,
                block_div |-> block_div, scramble_seed |-> scramble_seed,
                result |-> descramble_target(width, height, block_div, scramble_seed)]
    /\ UNCHANGED <<wallet, config, store, saved>>

MaxDraws == 4   \* most values drawn from one seed_generator

\* The arguments uint32 is read on
Uint32Inputs == ScrambleSeeds \cup {10}

\* The image sizes explored: every small size, and one page-sized image
ImageSizes == ((1..MaxDim) \X (1..MaxDim)) \cup {<<960, 1378>>}

Uint32(x) ==
    /\ last = Idle
    /\ last' = [op |-> "uint32", x |-> x, result |-> u32_halves(uint32(x))]
    /\ UNCHANGED <<wallet, config, store, saved>>

\* next(seeder) called n times on seed_generator(base_seed)
SeedGenerator(base_seed, n) ==
    /\ last = Idle
    /\ LET gen == seed_generator(base_seed, n)
       IN  last' = [op |-> "seed_generator", base_seed |-> base_seed, n |-> n,
                    outputs |-> gen]
    /\ UNCHANGED <<wallet, config, store, saved>>

GenerateCopyTargets(rectbox, base_seed) ==
    /\ last = Idle
    /\ LET gen == seed_generator(base_seed, rectbox * rectbox)
       IN  last' = [op |-> "generate_copy_targets", rectbox |-> rectbox,
                    base_seed |-> base_seed,
                    \* the values next(seed_gen) returned, as <<high, low>>
                    seeds |-> gen,
                    targets |-> generate_copy_targets(rectbox, base_seed)]
    /\ UNCHANGED <<wallet, config, store, saved>>

CalcBlockSize(width, height, rectbox) ==
    /\ last = Idle
    /\ last' = [op |-> "calc_block_size", width |-> width, height |-> height,
                rectbox |-> rectbox,
                result |-> calc_block_size(width, height, rectbox)]
    /\ UNCHANGED <<wallet, config, store, saved>>

InitImaging ==
    /\ wallet = [free_point |-> 0, paid_point |-> 0]
    /\ config = WebConfig("acc1")
    /\ store = EmptyStore
    /\ saved = NothingSaved
    /\ last = Idle

NextImaging ==
    \/ \E size \in ImageSizes, block_div \in BlockDivs,
          scramble_seed \in ScrambleSeeds :
            DescrambleTarget(size[1], size[2], block_div, scramble_seed)
    \/ \E x \in Uint32Inputs : Uint32(x)
    \/ \E base_seed \in ScrambleSeeds, n \in 1..MaxDraws : SeedGenerator(base_seed, n)
    \/ \E rectbox \in BlockDivs, base_seed \in ScrambleSeeds :
            GenerateCopyTargets(rectbox, base_seed)
    \/ \E size \in ImageSizes, rectbox \in BlockDivs :
            CalcBlockSize(size[1], size[2], rectbox)
    \/ Continue

SpecImaging == InitImaging /\ [][NextImaging]_vars

\* C9 (as claimed): descramble_target either fails with the image-too-small
\* error or returns a canvas whose width and height are both positive.
C9_NoDegenerateCanvas ==
    last.op = "descramble_target" =>
        \/ last.result.raised = "ValueError"
        \/ (last.result.canvas[1] > 0 /\ last.result.canvas[2] > 0)

\* An unsigned 32-bit number given as <<high 16 bits, low 16 bits>>
IsU32(h) == h[1] \in 0..65535 /\ h[2] \in 0..65535

\* The first outputs of xorshift32, as <<high, low>> halves:
\* seed 749191485: 1149330653, 1799678672, 902605375, 2984793402
\* seed 1:         270369, 67634689, 2647435461, 307599695
\* seed -69420 (= 4294897876): 493380838, 794898332, 1489498229, 2146001201
XorshiftReference(seed) ==
    CASE seed = 749191485 ->
            << <<17537, 25821>>, <<27460, 60112>>, <<13772, 43583>>, <<45544, 21818>> >>
      [] seed = 1 ->
            << <<4, 8225>>, <<1032, 1537>>, <<40396, 43205>>, <<4693, 39247>> >>
      [] seed = -69420 ->
            << <<7528, 25830>>, <<12129, 12188>>, <<22727, 61557>>, <<32745, 24881>> >>

\* C15: uint32(x) is x mod 2^32, also for negative x (uint32(-69420) =
\* 4294897876 = 65534 * 2^16 + 61652), and seed_generator yields the xorshift32
\* sequence of the wrapped seed, every output within 0..2^32-1; for seed
\* 749191485 the first four outputs are the reference values.
C15_Xorshift32 ==
    /\ last.op = "uint32" =>
          /\ IsU32(last.result)
          /\ IF last.x >= 0
             THEN last.result[1] * 65536 + last.result[2] = last.x
             ELSE (last.result[1] - 65536) * 65536 + last.result[2] = last.x
          /\ last.x = -69420 => last.result = <<65534, 61652>>
          /\ last.x = 10 => last.result = <<0, 10>>
    /\ last.op = "seed_generator" =>
          /\ Len(last.outputs) = last.n
          /\ \A k \in 1..last.n : IsU32(last.outputs[k])
          /\ last.n <= 4 =>
                last.outputs = SubSeq(XorshiftReference(last.base_seed), 1, last.n)

\* four values drawn for seed 749191485, the fourth above 2^31
C15_Witness ==
    /\ last.op = "seed_generator"
    /\ last.base_seed = 749191485
    /\ last.n = 4
    /\ last.outputs[4][1] >= 32768

\* The reference vector of generate_copy_targets(4, 749191485)
CopyTargetsReference ==
    << [source |-> <<1, 1>>, dest |-> <<0, 0>>], [source |-> <<2, 0>>, dest |-> <<1, 0>>],
       [source |-> <<3, 1>>, dest |-> <<2, 0>>], [source |-> <<0, 0>>, dest |-> <<3, 0>>],
       [source |-> <<3, 2>>, dest |-> <<0, 1>>], [source |-> <<0, 2>>, dest |-> <<1, 1>>],
       [source |-> <<1, 3>>, dest |-> <<2, 1>>], [source |-> <<1, 0>>, dest |-> <<3, 1>>],
       [source |-> <<0, 3>>, dest |-> <<0, 2>>], [source |-> <<3, 0>>, dest |-> <<1, 2>>],
       [source |-> <<2, 1>>, dest |-> <<2, 2>>], [source |-> <<0, 1>>, dest |-> <<3, 2>>],
       [source |-> <<3, 3>>, dest |-> <<0, 3>>], [source |-> <<2, 3>>, dest |-> <<1, 3>>],
       [source |-> <<2, 2>>, dest |-> <<2, 3>>], [source |-> <<1, 2>>, dest |-> <<3, 3>>] >>

\* C14: generate_copy_targets(block_div, seed) yields block_div^2 pairs; the
\* destinations are the tiles in row-major order; the sources are the
\* generation indices of the first block_div^2 generator outputs in ascending
\* order of output value, hence every tile exactly once; for (4, 749191485)
\* the pairs are the reference vector.
C14_CopyTargets ==
    last.op = "generate_copy_targets" =>
        LET d == last.rectbox
            n == d * d
            targets == last.targets
            Tiles == (0..(d - 1)) \X (0..(d - 1))
            index(k) == targets[k].source[2] * d + targets[k].source[1]
        IN  /\ Len(targets) = n
            /\ \A k \in 1..n :
                  targets[k].dest = << (k - 1) % d, (k - 1) \div d >>
            /\ {targets[k].source : k \in 1..n} = Tiles
            /\ \A k \in 1..(n - 1) :
                  u32_less(last.seeds[index(k) + 1], last.seeds[index(k + 1) + 1])
            /\ (d = 4 /\ last.base_seed = 749191485) =>
                  targets = CopyTargetsReference

\* the 16 pairs for (4, 749191485), the first tile taken from tile (1, 1)
C14_Witness ==
    /\ last.op = "generate_copy_targets"
    /\ last.rectbox = 4
    /\ last.base_seed = 749191485
    /\ Len(last.targets) = 16
    /\ last.targets[1].source = <<1, 1>>

\* C16: calc_block_size(w, h, d) is (None, None) when w < d or h < d, and
\* otherwise (floor(8 * floor(w / 8) / d), floor(8 * floor(h / 8) / d));
\* (960, 1378, 4) gives (240, 344) and (1, 1, 4) gives (None, None).
C16_BlockSize ==
    last.op = "calc_block_size" =>
        LET w == last.width
            h == last.height
            d == last.rectbox
        IN  /\ last.result.none <=> (w < d \/ h < d)
            /\ ~last.result.none =>
                  /\ last.result.w = (8 * (w \div 8)) \div d
                  /\ last.result.h = (8 * (h \div 8)) \div d
            /\ (w = 960 /\ h = 1378 /\ d = 4) =>
                  (~last.result.none /\ last.result.w = 240 /\ last.result.h = 344)
            /\ (w = 1 /\ h = 1 /\ d = 4) => last.result.none

\* the page-sized image, whose height 1378 is no multiple of 8
C16_Witness ==
    /\ last.op = "calc_block_size"
    /\ last.width = 960
    /\ last.height = 1378
    /\ last.rectbox = 4
    /\ ~last.result.none
    /\ last.result.h = 344

RectArea(r) == (r[3] - r[1]) * (r[4] - r[2])

RectInside(r, w, h) ==
    /\ 0 <= r[1] /\ r[1] <= r[3] /\ r[3] <= w
    /\ 0 <= r[2] /\ r[2] <= r[4] /\ r[4] <= h

\* two rectangles share no pixel
RectDisjoint(a, b) ==
    \/ RectArea(a) = 0 \/ RectArea(b) = 0
    \/ a[3] <= b[1] \/ b[3] <= a[1]
    \/ a[4] <= b[2] \/ b[4] <= a[2]

RECURSIVE SumArea(_, _)
SumArea(pastes, n) ==
    IF n = 0 THEN 0 ELSE SumArea(pastes, n - 1) + RectArea(pastes[n].box)

\* C30: for a source image with width and height at least block_div, every
\* rectangle cropped lies inside the source image, every destination
\* rectangle lies inside the canvas, and the destination rectangles cover
\* the canvas exactly once: they are pairwise disjoint and their areas add
\* up to the area of the canvas.
C30_TilesPartitionCanvas ==
    (/\ last.op = "descramble_target"
     /\ last.width >= last.block_div
     /\ last.height >= last.block_div) =>
        /\ last.result.raised = "none"
        /\ LET pastes == last.result.pastes
               canvas == last.result.canvas
           IN  /\ \A k \in 1..Len(pastes) :
                    /\ RectInside(pastes[k].crop, last.width, last.height)
                    /\ RectInside(pastes[k].box, canvas[1], canvas[2])
               /\ \A k, m \in 1..Len(pastes) :
                    k # m => RectDisjoint(pastes[k].box, pastes[m].box)
               /\ SumArea(pastes, Len(pastes)) = canvas[1] * canvas[2]

\* a page-sized image, taller than wide, descrambled in 4 x 4 tiles
C30_Witness ==
    /\ last.op = "descramble_target"
    /\ last.width = 960
    /\ last.height = 1378
    /\ last.block_div = 4
    /\ last.result.raised = "none"
    /\ Len(last.result.pastes) = 16
    /\ last.result.canvas = << 960, 1376 >>


-----------------------------------------------------------------------------
(* Claims on the commands of cli/impl, checked under SpecCli.               *)

IsTitlePurchase == last # Idle /\ last.op = "kmkc_title_purchase"
IsTitleDownload ==
    last # Idle /\ last.op \in {"kmkc_title_download", "kmkc_title_auto_download"}
IsMangaPurchase == last # Idle /\ last.op = "musq_manga_purchase"
IsMangaDownload == last # Idle /\ last.op = "musq_manga_download"

\* C29: kmkc_title_purchase sends the bulk point-purchase request only when
\* at least one selected chapter is to be bought with points; when every
\* chapter to purchase is covered by a ticket, no bulk request is sent.
C29_BulkOnlyWithPointChapters ==
    IsTitlePurchase =>
        ((\E k \in 1..Len(last.sent) : last.sent[k].path = "/episode/paid/bulk")
            => last.point_claimant # << >>)

\* C25: in the KM purchase and download commands a ticket count is
\* decremented only when it was above zero, so neither the title-ticket nor
\* the premium-ticket count ever becomes negative.
C25_TicketsNeverNegative ==
    (IsTitlePurchase \/ IsTitleDownload) =>
        /\ \A k \in 1..Len(last.took) : last.took[k].own > 0
        /\ last.tickets.title >= 0
        /\ last.tickets.premium >= 0
        /\ last.tickets.title + last.tickets.premium + Len(last.took)
              = last.tickets_before.title + last.tickets_before.premium

C25_Witness ==
    /\ IsTitleDownload
    /\ Len(last.took) = 2
    /\ last.tickets_before = [title |-> 1, premium |-> 1]
    /\ last.tickets = [title |-> 0, premium |-> 0]

\* C21: in a KM download run, once an episode has been purchased no further
\* payment is attempted for it; an episode claimed with a ticket is not
\* bought with points as well.
C21_NoSecondPayment ==
    IsTitleDownload =>
        \A j \in 1..Len(last.claims), k \in 1..Len(last.claims) :
            (j < k /\ last.claims[j].raised = "none")
                => last.claims[k].episode_id # last.claims[j].episode_id

\* The chapter of the title with the given id
ChapterOf(chapters, id) ==
    CHOOSE c \in {chapters[k] : k \in 1..Len(chapters)} : c.id = id

\* C23: in a musq batch purchase a free chapter is purchased, and every
\* chapter the ledger finds unaffordable is skipped with a recorded failure,
\* without a purchase request and with the purse unchanged, while the
\* remaining chapters are still processed.  Stated for the runs in which the
\* backend rejects no request.
C23_UnaffordableSkipped ==
    (IsMangaPurchase /\ last.raised \notin ViewerRejections) =>
        /\ \A k \in 1..Len(last.log) :
             LET e == last.log[k]
                 chapter == ChapterOf(last.chapters, e.id)
             IN  /\ chapter.price = 0 =>
                       /\ e.outcome = "ok"
                       /\ Len(e.sent) = 1
                       /\ e.sent[1].data = [chapter_id |-> e.id, free_point |-> 0,
                                            event_point |-> 0, paid_point |-> 0]
                 /\ EligibleBalance(e.before, chapter.consumption) < chapter.price =>
                       /\ e.outcome = "skipped"
                       /\ e.sent = << >>
                       /\ e.after = e.before
                       /\ \E j \in 1..Len(last.failed_chapters) :
                             last.failed_chapters[j].id = e.id
        \* every selected chapter is handled, in the order selected
        /\ Len(last.log) = Len(last.selected)
        /\ \A k \in 1..Len(last.log) : last.log[k].id = last.selected[k]
        /\ last.raised = "none"

\* C28: in musq_manga_purchase coins are deducted from the purse only for
\* chapters that were claimed; a chapter whose purchase call returns no
\* blocks or raises leaves the purse as it was before that chapter.
C28_FailedPurchaseKeepsPurse ==
    IsMangaPurchase =>
        \A k \in 1..Len(last.log) :
            last.log[k].outcome \in ViewerRejections
                => last.log[k].after = last.log[k].before

\* C24: in a batch download of either source a rejected viewer request on
\* one chapter does not abort the batch; every remaining chapter to download
\* is still attempted.
C24_FailureDoesNotAbortBatch ==
    ((IsTitleDownload \/ IsMangaDownload) /\ last.rejected # {}) =>
        last.attempted =
            [k \in 1..Len(last.actual_chapters) |->
                IF IsTitleDownload THEN last.actual_chapters[k].episode_id
                ELSE last.actual_chapters[k].id]

====
